---- MODULE Spec2Model ----
(***************************************************************************)
(* Batched crawl-and-change-detection engine of sitemap-scan:              *)
(* BackupFetcher.performSiteBackup and the helpers it calls                *)
(* (src/src/backup/fetcher.ts), over an abstract key-value store and an    *)
(* abstract web (sitemap documents and pages).                             *)
(*                                                                         *)
(* Optional values are sequences of length 0 or 1: None is << >>, a value  *)
(* x that is present is <<x>>.                                             *)
(***************************************************************************)
EXTENDS Integers, Sequences, FiniteSets

\* ------------------------------------------------------------------------
\* Bounds of the model
\* ------------------------------------------------------------------------

\* Sitemap fetches one resolution may issue before fetch() throws (the
\* per-invocation subrequest budget of the platform, scaled down).
MaxFetch == 6

\* Calendar days the model runs through (dates are 0..MaxDay).
MaxDay == 2

\* Changes of the environment (web, pages, date) in one behaviour.
MaxEnv == 1

\* Changes of one category (content, style, structure) between two versions
\* of a document.
MaxListLen == 2

\* Clock ticks the model runs through.
MaxClock == 3

\* Tokens of a document that is normalized.
MaxTokens == 3

\* ------------------------------------------------------------------------
\* Program constants
\* ------------------------------------------------------------------------

DEFAULT_BATCH_SIZE == 25
MAX_BATCH_SIZE == 30

\* kv.list({prefix, limit: 1000}) in cleanupOldBackups, scaled down: the
\* number of keys one list call returns.
ListLimit == 2

\* ------------------------------------------------------------------------
\* Helpers
\* ------------------------------------------------------------------------

None == << >>
Some(x) == <<x>>
IsSome(o) == Len(o) > 0
Get(o) == o[1]

Min(a, b) == IF a <= b THEN a ELSE b
Max(a, b) == IF a >= b THEN a ELSE b

\* Array.prototype.slice(start, end): negative indices count from the end,
\* both are clamped to [0, length], an empty range gives [].
SliceIndex(len, i) == IF i < 0 THEN Max(len + i, 0) ELSE Min(i, len)
JsSlice(s, start, end) ==
    LET from == SliceIndex(Len(s), start)
        to   == SliceIndex(Len(s), end)
    IN  IF to <= from THEN << >> ELSE SubSeq(s, from + 1, to)

\* ------------------------------------------------------------------------
\* The web: sitemap documents and pages
\* ------------------------------------------------------------------------

\* Page URLs are numbers, sitemap URLs are names; "A" is siteConfig.sitemapUrl.
Pages == 1..4
BaseUrl == 4
SitemapUrls == {"A", "B", "C"}
RootSitemap == "A"

\* A sitemap document: kind "urlset" (locs, with one <lastmod> version),
\* "index" (child sitemap locs) or "down" (fetch fails or answers non-2xx).
UrlSet(locs, lastmod) ==
    [kind |-> "urlset", locs |-> locs, children |-> << >>, lastmod |-> lastmod]
Index(children) ==
    [kind |-> "index", locs |-> << >>, children |-> children, lastmod |-> 0]
Down == [kind |-> "down", locs |-> << >>, children |-> << >>, lastmod |-> 0]

Web(a, b, c) == [s \in SitemapUrls |-> CASE s = "A" -> a [] s = "B" -> b [] OTHER -> c]

WebFlat(v)  == Web(UrlSet(<<1, 2, 3>>, v), Down, Down)
WebShrunk   == Web(UrlSet(<<1>>, 1), Down, Down)
WebTree     == Web(Index(<<"B", "C">>), UrlSet(<<1, 2>>, 1), UrlSet(<<3>>, 1))
WebCycle    == Web(Index(<<"B">>), Index(<<"A">>), Down)
WebShared   == Web(Index(<<"B", "C">>), Index(<<"C">>), UrlSet(<<1, 2>>, 1))
WebDown     == Web(Down, Down, Down)

\* A large site: more URLs than the large-site threshold, and the same
\* sitemap with one <loc> added at the end.
ListenerThreshold == 100
LargePages == 1..(ListenerThreshold + 2)
WebLarge     == Web(UrlSet([i \in 1..(ListenerThreshold + 1) |-> i], 1), Down, Down)
WebLargePlus == Web(UrlSet([i \in 1..(ListenerThreshold + 2) |-> i], 1), Down, Down)

Webs == {WebFlat(1), WebFlat(2), WebShrunk, WebTree, WebCycle, WebShared, WebDown,
         WebLarge, WebLargePlus}

\* The changes of the web the model makes: new <lastmod> values, URLs
\* removed, the sitemap server failing and recovering.
WebChanges ==
    { <<WebFlat(1), WebFlat(2)>>, <<WebFlat(1), WebShrunk>>,
      <<WebFlat(1), WebDown>>, <<WebDown, WebFlat(1)>>,
      <<WebLarge, WebLargePlus>> }

\* How the sitemap server treats validators: it sends none, it sends an etag
\* and answers 304 to a matching If-None-Match, or it sends an etag and
\* ignores conditional requests.
ServerModes == {"none", "etag", "ignore"}

\* Page content: a body and a noise part (timestamps, tokens) that
\* normalization strips. PageDown: the fetch of the page fails.
Contents == {[body |-> 1, noise |-> 1], [body |-> 1, noise |-> 2], [body |-> 2, noise |-> 1]}
PageDown == [body |-> 0, noise |-> 0]
VolatilePages == {1}

\* SHA-256 of the raw content, and of the normalized content (noise removed).
CalculateHash(c) == <<c.body, c.noise>>
CalculateNormalizedHash(c) == <<c.body, 0>>

\* SHA-256 of a sitemap body: two bodies have the same hash iff they are equal.
SitemapHash(doc) == doc

\* ------------------------------------------------------------------------
\* Site configurations
\* ------------------------------------------------------------------------

\* sitemapUrl: whether siteConfig.sitemapUrl is set; urls: siteConfig.urls;
\* excluded: the URLs the exclude patterns match.
SitemapSite == [sitemapUrl |-> TRUE,  urls |-> << >>, excluded |-> {}, retentionDays |-> 1]
UrlListSite == [sitemapUrl |-> FALSE, urls |-> <<1, 2, 3, 4>>, excluded |-> {3}, retentionDays |-> 1]
BaseUrlSite == [sitemapUrl |-> FALSE, urls |-> << >>, excluded |-> {}, retentionDays |-> 1]

\* The worlds the model starts from: a configuration, the kind of server its
\* sitemap is on, and the sitemap documents.
Worlds ==
    { <<SitemapSite, "none", WebFlat(1)>>, <<SitemapSite, "etag", WebFlat(1)>>,
      <<SitemapSite, "ignore", WebFlat(1)>>, <<SitemapSite, "none", WebTree>>,
      <<SitemapSite, "none", WebCycle>>, <<SitemapSite, "none", WebShared>>,
      <<UrlListSite, "none", WebDown>>, <<BaseUrlSite, "none", WebDown>> }

\* Options of one call: batchSize and batchOffset are optional numbers.
Options(size, offset, cont) ==
    [batchSize |-> size, batchOffset |-> offset, continueFromLast |-> cont]

\* The calls the model makes: the scheduler's continuation calls (default and
\* small batch sizes), and manual triggers with and without an offset, one
\* of them beyond any URL list of the model.
BatchOptions ==
    { Options(None, None, TRUE), Options(Some(1), None, TRUE),
      Options(Some(2), None, TRUE), Options(Some(2), Some(1), TRUE),
      Options(Some(2), None, FALSE), Options(Some(2), Some(1), FALSE),
      Options(Some(2), Some(5), FALSE) }

\* The key-value operations that may fail (throw) during a call, by method
\* and key prefix.
KvFaults ==
    { "get:batch_progress", "put:batch_progress", "delete:batch_progress",
      "get:full_scan", "put:full_scan", "get:sitemap_state", "put:sitemap_state",
      "get:latest", "put:backup", "list:backup" }

\* The workers that may run performSiteBackup for the site at the same time.
Workers == {1, 2}

VARIABLES
    config,         \* the SiteConfig of the site
    server,         \* how the sitemap server treats validators
    web,            \* the sitemap documents
    pages,          \* the content each page URL serves
    today,          \* the current UTC date
    envChanges,     \* environment changes so far
    batchProgress,  \* batch_progress:{site}
    fullScan,       \* full_scan:{site}
    sitemapState,   \* sitemap_state:{site}
    latest,         \* latest:{site}:{urlHash}
    prevLatest,     \* prev_latest:{site}:{urlHash}
    backups,        \* backup:{site}:{date}:{urlHash}
    metas,          \* meta:{site}:{date}:{urlHash}
    sitemapListener,  \* sitemap_listener:{site}
    sitemapSnapshot,  \* sitemap_snapshot:{site}
    urlsCache,      \* the dates d for which a key urls_cache:{site}:{d} exists
    others,         \* the progress keys of another site
    kvFault,        \* the key-value operation that fails during the next call
    reset,          \* the call of resetSiteProgress just made: the state before it
    diffCache,      \* diff:{site}:{date}:{hash}: the cached DiffCacheEntry of each key
    now,            \* Date.now(), in clock ticks
    diffCall,       \* the call of generateDiff just made: arguments and result
    normCall,       \* the normalization just made: input, normalized once and twice
    input,          \* the arguments drawn for a single call of a pure operation
    parserCall,     \* the sitemap resolution just made by SitemapParser: arguments and results
    fetchRun,       \* the call of fetchUrlsWithConcurrency in progress
    invocations,    \* the calls of performSiteBackup in progress, when they may overlap
    last,           \* the call of performSiteBackup just made: options, pre-state, result
    cycle           \* the continuation sequence in progress

vars == <<config, server, web, pages, today, envChanges, batchProgress, fullScan,
          sitemapState, latest, prevLatest, backups, metas, sitemapListener,
          sitemapSnapshot, urlsCache, others, kvFault, reset, last, cycle,
          diffCache, now, diffCall, normCall, input, parserCall, fetchRun, invocations>>

\* The state of the diff generator and of the calls followed on their own,
\* and the state of the backup fetcher.
diffVars == <<diffCache, now, diffCall, normCall, input, parserCall, fetchRun, invocations>>
fetchVars == <<config, server, web, pages, today, envChanges, batchProgress, fullScan,
               sitemapState, latest, prevLatest, backups, metas, sitemapListener,
               sitemapSnapshot, urlsCache, others, kvFault, reset, last, cycle>>

kvVars == <<batchProgress, fullScan, sitemapState, latest, prevLatest, backups, metas,
            sitemapListener, sitemapSnapshot, urlsCache, others>>

\* ------------------------------------------------------------------------
\* Sitemap resolution (BackupFetcher.parseSitemap and its helpers)
\* ------------------------------------------------------------------------

\* recordSitemapState: the validators of the response and the hash of the
\* body, written to sitemap_state:{site} (one key for the whole site).
RecordSitemapState(doc) ==
    Some([etag         |-> IF server = "none" THEN None ELSE Some(doc),
          lastModified |-> None,
          contentHash  |-> Some(SitemapHash(doc))])

\* A resolution in progress: the sitemap URLs fetched so far, in order, and
\* the value of sitemap_state:{site}.
RECURSIVE ParseSitemap(_, _)
RECURSIVE ParseSubSitemaps(_, _, _)

\* parseSitemap(siteId, sitemapUrl) started in context ctx = [log, state];
\* gives [urls, log, state]. A fetch beyond the budget throws, as does the
\* fetch of a document that is down; the catch block returns [].
ParseSitemap(url, ctx) ==
    IF Len(ctx.log) >= MaxFetch
    THEN [urls |-> << >>, log |-> ctx.log, state |-> ctx.state]
    ELSE LET doc    == web[url]
             log1   == Append(ctx.log, url)
             state1 == IF doc.kind = "down" \/ kvFault = "put:sitemap_state"
                       THEN ctx.state ELSE RecordSitemapState(doc)
         IN  CASE doc.kind = "urlset" /\ doc.locs # << >> ->
                    [urls |-> doc.locs, log |-> log1, state |-> state1]
               [] doc.kind = "index" /\ doc.children # << >> ->
                    ParseSubSitemaps(doc.children, << >>, [log |-> log1, state |-> state1])
               [] OTHER ->
                    [urls |-> << >>, log |-> log1, state |-> state1]

\* The loop over the <sitemap> entries of an index: each child is resolved
\* in turn and its URLs are appended.
ParseSubSitemaps(children, allUrls, ctx) ==
    IF children = << >>
    THEN [urls |-> allUrls, log |-> ctx.log, state |-> ctx.state]
    ELSE LET sub == ParseSitemap(Head(children), ctx)
         IN  ParseSubSitemaps(Tail(children), allUrls \o sub.urls,
                              [log |-> sub.log, state |-> sub.state])

\* getUrlsToBackup, sitemap_state:{site} being state0: the explicit list, else the resolved sitemap, else the
\* base URL; then the exclusion patterns.
GetUrlsToBackup(state0) ==
    LET raw == IF config.urls # << >>
               THEN [urls |-> config.urls, log |-> << >>, state |-> state0]
               ELSE IF config.sitemapUrl
               THEN ParseSitemap(RootSitemap, [log |-> << >>, state |-> state0])
               ELSE [urls |-> <<BaseUrl>>, log |-> << >>, state |-> state0]
         NotExcluded(u) == u \notin config.excluded
    IN  [raw EXCEPT !.urls = SelectSeq(raw.urls, NotExcluded)]

\* hasSitemapChanged: a conditional GET of the sitemap URL; gives
\* [changed, state], state being the new value of sitemap_state:{site}.
HasSitemapChanged ==
    LET existing == IF IsSome(sitemapState) THEN Get(sitemapState)
                    ELSE [etag |-> None, lastModified |-> None, contentHash |-> None]
        doc      == web[RootSitemap]
        notModified == /\ server = "etag"
                       /\ IsSome(existing.etag)
                       /\ Get(existing.etag) = doc
    IN  IF kvFault = "get:sitemap_state"
        THEN [changed |-> TRUE, state |-> sitemapState, hit |-> TRUE]
        ELSE IF doc.kind = "down"
        THEN [changed |-> TRUE, state |-> sitemapState, hit |-> FALSE]
        ELSE IF notModified
        THEN [changed |-> FALSE, state |-> sitemapState, hit |-> FALSE]
        ELSE IF /\ ~IsSome(existing.etag)
                /\ ~IsSome(existing.lastModified)
                /\ IsSome(existing.contentHash)
                /\ Get(existing.contentHash) = SitemapHash(doc)
             THEN IF kvFault = "put:sitemap_state"
                  THEN [changed |-> TRUE, state |-> sitemapState, hit |-> TRUE]
                  ELSE [changed |-> FALSE, state |-> Some(existing), hit |-> FALSE]
        ELSE IF kvFault = "put:sitemap_state"
             THEN [changed |-> TRUE, state |-> sitemapState, hit |-> TRUE]
        ELSE [changed |-> TRUE, state |-> RecordSitemapState(doc), hit |-> FALSE]

\* ------------------------------------------------------------------------
\* Fetching, change detection, storing, cleanup
\* ------------------------------------------------------------------------

Dates == 0..MaxDay

\* fetchUrlWithRetries for one URL: a success with metadata and content, or
\* a failure.
FetchUrl(u) ==
    LET c == pages[u]
    IN  IF c # PageDown
        THEN [url |-> u, success |-> TRUE, content |-> Some(c),
              metadata |-> Some([url |-> u, timestamp |-> today, hash |-> CalculateHash(c),
                                 normalizedHash |-> Some(CalculateNormalizedHash(c))]),
              error |-> None]
        ELSE [url |-> u, success |-> FALSE, content |-> None, metadata |-> None,
              error |-> Some("HTTP error")]

\* A fetch loop in which a URL that fails leaves no result.
FetchUrlsDropFailed(batchUrls) ==
    LET Ok(r) == r.success
    IN  SelectSeq([i \in 1..Len(batchUrls) |-> FetchUrl(batchUrls[i])], Ok)

\* fetchUrlsWithConcurrency: one result per URL of the batch, in order.
FetchUrlsWithConcurrency(batchUrls) ==
    [i \in 1..Len(batchUrls) |-> FetchUrl(batchUrls[i])]

IsSuccess(r) == r.success
IsFailure(r) == ~r.success

\* normalizedHash || hash
ComparableHash(m) == IF IsSome(m.normalizedHash) THEN Get(m.normalizedHash) ELSE m.hash

\* A change detection that compares raw hashes.
IsChangedRaw(r, latestKv) ==
    IF IsSome(latestKv[r.url])
    THEN Get(latestKv[r.url]).hash # Get(r.metadata).hash
    ELSE TRUE

\* detectChanges: whether one successful result is reported changed against
\* the stored latest record.
IsChanged(r, latestKv) ==
    IF IsSome(latestKv[r.url])
    THEN ComparableHash(Get(latestKv[r.url])) # ComparableHash(Get(r.metadata))
    ELSE TRUE

DetectChanges(results, latestKv) ==
    LET Changed(r) == IsSome(r.metadata) /\ IsChanged(r, latestKv)
        changed == SelectSeq(results, Changed)
    IN  [i \in 1..Len(changed) |-> changed[i].url]

\* storeBackups: for each result in turn, read latest, then write the dated
\* content and metadata, latest, and prev_latest if a latest existed.
RECURSIVE StoreBackups(_, _)
StoreBackups(results, kv) ==
    IF results = << >> THEN kv
    ELSE IF ~IsSome(Head(results).metadata) \/ ~IsSome(Head(results).content)
    THEN StoreBackups(Tail(results), kv)
    ELSE LET r    == Head(results)
             key  == <<today, r.url>>
             prev == kv.latest[r.url]
         IN  StoreBackups(Tail(results),
                [backups    |-> IF kvFault = "put:backup" THEN kv.backups
                                ELSE [kv.backups EXCEPT ![key] = r.content],
                 metas      |-> [kv.metas EXCEPT ![key] = r.metadata],
                 latest     |-> [kv.latest EXCEPT ![r.url] = r.metadata],
                 prevLatest |-> IF IsSome(prev)
                                THEN [kv.prevLatest EXCEPT ![r.url] = prev]
                                ELSE kv.prevLatest])

\* Keys are listed in lexicographic order: by date, then by URL hash.
KeyBefore(a, b) == a[1] < b[1] \/ (a[1] = b[1] /\ a[2] < b[2])

\* kv.list({prefix: 'backup:{site}:', limit}): the first ListLimit keys; the
\* cursor of the answer is not followed.
ListedBackups(kv) ==
    LET present == {key \in DOMAIN kv.backups : IsSome(kv.backups[key])}
    IN  {key \in present :
            Cardinality({other \in present : KeyBefore(other, key)}) < ListLimit}

\* A cleanup that also deletes the entries dated on the cutoff day.
CleanupThroughCutoff(kv) ==
    LET listed == ListedBackups(kv)
        Old(key) == key \in listed /\ key[1] <= today - config.retentionDays
    IN  [kv EXCEPT !.backups = [key \in DOMAIN kv.backups |->
                                   IF Old(key) THEN None ELSE kv.backups[key]],
                   !.metas   = [key \in DOMAIN kv.metas |->
                                   IF Old(key) THEN None ELSE kv.metas[key]]]

\* cleanupOldBackups: delete the listed backup: keys dated before the cutoff
\* and the meta: keys of the same date and URL.
CleanupOldBackups(kv) ==
    LET cutoff == today - config.retentionDays
        listed == ListedBackups(kv)
        Old(key) == key \in listed /\ key[1] < cutoff
    IN  IF kvFault = "list:backup" THEN kv ELSE
        [kv EXCEPT !.backups = [key \in DOMAIN kv.backups |->
                                   IF Old(key) THEN None ELSE kv.backups[key]],
                   !.metas   = [key \in DOMAIN kv.metas |->
                                   IF Old(key) THEN None ELSE kv.metas[key]]]

\* ------------------------------------------------------------------------
\* performSiteBackup
\* ------------------------------------------------------------------------

\* The key-value records performSiteBackup reads and writes.
CurrentKv ==
    [batchProgress |-> batchProgress, fullScan |-> fullScan,
     sitemapState |-> sitemapState, latest |-> latest, prevLatest |-> prevLatest,
     backups |-> backups, metas |-> metas]

\* batchSize = min(batchOptions.batchSize ?? DEFAULT_BATCH_SIZE, MAX_BATCH_SIZE)
EffectiveBatchSize(opts) ==
    Min(IF IsSome(opts.batchSize) THEN Get(opts.batchSize) ELSE DEFAULT_BATCH_SIZE,
        MAX_BATCH_SIZE)

\* A resume that ignores the saved progress.
StartOffsetIgnoreSaved(opts) ==
    IF IsSome(opts.batchOffset) THEN Get(opts.batchOffset) ELSE 0

\* Whether the saved progress is used: continueFromLast and a record exists.
HadSavedProgress(opts) == opts.continueFromLast /\ IsSome(batchProgress)

\* The offset the batch starts at: the caller's (default 0), or the saved
\* nextOffset when continuing from saved progress.
StartOffset(opts) ==
    IF HadSavedProgress(opts) THEN Get(batchProgress).nextOffset
    ELSE IF IsSome(opts.batchOffset) THEN Get(opts.batchOffset) ELSE 0

\* Whether the call reaches the once-per-day check and finds today's full scan.
FullScanToday(opts) ==
    /\ opts.continueFromLast
    /\ ~HadSavedProgress(opts)
    /\ StartOffset(opts) = 0
    /\ kvFault # "get:full_scan"
    /\ IsSome(fullScan)
    /\ Get(fullScan).date = today

\* buildNoopResult
BuildNoopResult ==
    [totalUrls |-> 0, processedInBatch |-> 0, successfulBackups |-> 0,
     failedBackups |-> 0, changedUrls |-> << >>, errors |-> << >>, results |-> << >>,
     batchOffset |-> 0, batchSize |-> 0, hasMore |-> FALSE, nextOffset |-> None,
     completed |-> 0]

\* A checkpoint that is one URL too far.
SaveBatchProgressSkipOne(kv, nextOffset, totalUrls) ==
    [kv EXCEPT !.batchProgress =
        Some([nextOffset |-> nextOffset + 1, totalUrls |-> totalUrls])]

\* A completion that forgets clearBatchProgress.
CompleteScanKeepProgress(kv, totalUrls) ==
    [kv EXCEPT !.fullScan = Some([date |-> today, totalUrls |-> totalUrls])]

\* saveBatchProgress(siteId, {nextOffset, totalUrls, lastRunTime})
SaveBatchProgress(kv, nextOffset, totalUrls) ==
    [kv EXCEPT !.batchProgress = Some([nextOffset |-> nextOffset, totalUrls |-> totalUrls])]

\* clearBatchProgress(siteId), then setFullScanState(siteId, {date: today, ...})
CompleteScan(kv, totalUrls) ==
    [kv EXCEPT !.batchProgress = None,
               !.fullScan = IF kvFault = "put:full_scan" THEN @
                            ELSE Some([date |-> today, totalUrls |-> totalUrls])]

\* A fetcher that runs the cleanup in every batch.
RunsCleanupAlways(batchOffset) == TRUE

\* if (batchOffset === 0): the batch that runs the retention cleanup.
RunsCleanup(batchOffset) == batchOffset = 0

\* No cleanup was run.
NoCleanup == [ran |-> FALSE, before |-> None, after |-> None]

\* The early return of the once-per-day check.
NoopOutcome(kv, checked) ==
    [noop |-> TRUE, thrown |-> FALSE, kvHit |-> FALSE, failedStores |-> 0, kv |-> kv,
     cleanup |-> NoCleanup,
     result |-> BuildNoopResult, sitemapCheck |-> checked,
     sitemapFetches |-> << >>, pageFetches |-> << >>, allUrls |-> << >>]

\* The call from URL resolution on, starting from key-value state kv0.
ScanOutcome(opts, kv0, checked) ==
    LET batchOffset == StartOffset(opts)
        batchSize   == EffectiveBatchSize(opts)
        \* the call from the resolved URLs, the batch and its fetch results on
        Scanned(resolved, batchUrls, results) ==
            LET allUrls     == resolved.urls
                totalUrls   == Len(allUrls)
                kv1         == [kv0 EXCEPT !.sitemapState = resolved.state]
                processedInBatch == Len(batchUrls)
                successfulResults == SelectSeq(results, IsSuccess)
                failedResults     == SelectSeq(results, IsFailure)
                changedUrls == DetectChanges(successfulResults, kv1.latest)
                stored      == StoreBackups(successfulResults,
                                  [backups |-> kv1.backups, metas |-> kv1.metas,
                                   latest |-> kv1.latest, prevLatest |-> kv1.prevLatest])
                cleaned     == IF RunsCleanup(batchOffset) THEN CleanupOldBackups(stored)
                               ELSE stored
                cleanup     == IF RunsCleanup(batchOffset)
                               THEN [ran |-> TRUE, before |-> Some(stored),
                                     after |-> Some(cleaned)]
                               ELSE NoCleanup
                kv2         == [kv1 EXCEPT !.backups = cleaned.backups, !.metas = cleaned.metas,
                                           !.latest = cleaned.latest,
                                           !.prevLatest = cleaned.prevLatest]
                nextOffset  == batchOffset + processedInBatch
                hasMore     == nextOffset < totalUrls
                \* failures that are caught where they happen
                caught      == \/ /\ kvFault = "put:sitemap_state"
                                  /\ \E i \in 1..Len(resolved.log) : web[resolved.log[i]].kind # "down"
                               \/ kvFault = "put:backup" /\ successfulResults # << >>
                               \/ kvFault = "list:backup" /\ batchUrls # << >> /\ batchOffset = 0
                               \/ kvFault = "put:full_scan" /\ ~hasMore
                \* a rejected promise that nothing catches: the call ends there, with
                \* the key-value state kv and the pages fetched so far
                Thrown(kv, fetched, cleanupRun) ==
                    [noop |-> FALSE, thrown |-> TRUE, kvHit |-> TRUE, failedStores |-> 0,
                     kv |-> kv, cleanup |-> cleanupRun,
                     result |-> BuildNoopResult, sitemapCheck |-> checked,
                     sitemapFetches |-> resolved.log, pageFetches |-> fetched,
                     allUrls |-> allUrls]
            IN  IF batchUrls = << >>
                THEN IF kvFault = "delete:batch_progress" THEN Thrown(kv1, << >>, NoCleanup)
                     ELSE
                     [noop |-> FALSE, thrown |-> FALSE, kvHit |-> caught, failedStores |-> 0,
                      kv |-> CompleteScan(kv1, totalUrls), cleanup |-> NoCleanup,
                      result |-> [totalUrls |-> totalUrls, processedInBatch |-> 0,
                                  successfulBackups |-> 0, failedBackups |-> 0,
                                  changedUrls |-> << >>, errors |-> << >>, results |-> << >>,
                                  batchOffset |-> batchOffset, batchSize |-> batchSize,
                                  hasMore |-> FALSE, nextOffset |-> None,
                                  completed |-> totalUrls],
                      sitemapCheck |-> checked, sitemapFetches |-> resolved.log,
                      pageFetches |-> << >>, allUrls |-> allUrls]
                ELSE IF kvFault = "get:latest" /\ successfulResults # << >>
                THEN Thrown(kv1, batchUrls, NoCleanup)
                ELSE IF \/ kvFault = "put:batch_progress" /\ hasMore
                        \/ kvFault = "delete:batch_progress" /\ ~hasMore
                THEN Thrown(kv2, batchUrls, cleanup)
                ELSE [noop |-> FALSE, thrown |-> FALSE, kvHit |-> caught,
                      failedStores |-> IF kvFault = "put:backup" THEN Len(successfulResults) ELSE 0,
                      kv |-> IF hasMore THEN SaveBatchProgress(kv2, nextOffset, totalUrls)
                             ELSE CompleteScan(kv2, totalUrls),
                      cleanup |-> cleanup,
                      result |-> [totalUrls |-> totalUrls, processedInBatch |-> processedInBatch,
                                  successfulBackups |-> Len(successfulResults),
                                  failedBackups |-> Len(failedResults),
                                  changedUrls |-> changedUrls,
                                  errors |-> [i \in 1..Len(failedResults) |->
                                                IF IsSome(failedResults[i].error)
                                                THEN Get(failedResults[i].error)
                                                ELSE "Unknown error"],
                                  results |-> [i \in 1..Len(results) |->
                                                 [url |-> results[i].url,
                                                  success |-> results[i].success,
                                                  metadata |-> IsSome(results[i].metadata),
                                                  error |-> IsSome(results[i].error)]],
                                  batchOffset |-> batchOffset, batchSize |-> batchSize,
                                  hasMore |-> hasMore,
                                  nextOffset |-> IF hasMore THEN Some(nextOffset) ELSE None,
                                  completed |-> Min(nextOffset, totalUrls)],
                      sitemapCheck |-> checked, sitemapFetches |-> resolved.log,
                      pageFetches |-> batchUrls, allUrls |-> allUrls]
        Sliced(resolved, batchUrls) ==
            Scanned(resolved, batchUrls, FetchUrlsWithConcurrency(batchUrls))
        Resolved(resolved) ==
            Sliced(resolved, JsSlice(resolved.urls, batchOffset, batchOffset + batchSize))
    IN  Resolved(GetUrlsToBackup(kv0.sitemapState))

\* performSiteBackup without the once-per-day check.
PerformOutcomeNoDailyCheck(opts) == ScanOutcome(opts, CurrentKv, None)

\* The call ends in loadBatchProgress, whose get is not in a try block.
LoadThrows ==
    [noop |-> FALSE, thrown |-> TRUE, kvHit |-> TRUE, failedStores |-> 0,
     kv |-> CurrentKv, cleanup |-> NoCleanup,
     result |-> BuildNoopResult, sitemapCheck |-> None, sitemapFetches |-> << >>,
     pageFetches |-> << >>, allUrls |-> << >>]

\* performSiteBackup(siteConfig, opts) as a whole.
PerformOutcome(opts) ==
    IF opts.continueFromLast /\ kvFault = "get:batch_progress" THEN LoadThrows
    ELSE IF FullScanToday(opts)
    THEN IF config.sitemapUrl
         THEN LET check == HasSitemapChanged
                  kv0   == [CurrentKv EXCEPT !.sitemapState = check.state]
                  out   == IF ~check.changed THEN NoopOutcome(kv0, Some(FALSE))
                           ELSE ScanOutcome(opts, kv0, Some(TRUE))
              IN  [out EXCEPT !.kvHit = @ \/ check.hit]
         ELSE NoopOutcome(CurrentKv, None)
    ELSE LET out == ScanOutcome(opts, CurrentKv, None)
         IN  [out EXCEPT !.kvHit = @ \/ /\ kvFault = "get:full_scan"
                                        /\ opts.continueFromLast
                                        /\ ~HadSavedProgress(opts)
                                        /\ StartOffset(opts) = 0]

\* ------------------------------------------------------------------------
\* History of the calls (for stating the properties)
\* ------------------------------------------------------------------------

\* A continuation sequence starts with a call made while no progress is
\* stored and ends with the first call that returns hasMore = false. It is
\* regular while every call has continueFromLast, no explicit non-zero
\* batchOffset, a batchSize >= 1, and resolves the same URL list.
RegularCall(opts) ==
    /\ opts.continueFromLast
    /\ opts.batchOffset \in {None, Some(0)}
    /\ (IsSome(opts.batchSize) => Get(opts.batchSize) >= 1)

Irregular(phase) == [phase |-> phase, regular |-> FALSE, sum |-> 0, urls |-> << >>]

NextCycle(opts, out) ==
    LET starting == cycle.phase # "running"
        regular  == /\ starting \/ cycle.regular
                    /\ RegularCall(opts)
                    /\ starting \/ out.allUrls = cycle.urls
    IN  IF regular
        THEN [phase   |-> IF out.result.hasMore THEN "running" ELSE "done",
              regular |-> TRUE,
              sum     |-> (IF starting THEN 0 ELSE cycle.sum) + out.result.processedInBatch,
              urls    |-> IF starting THEN out.allUrls ELSE cycle.urls]
        ELSE Irregular(IF out.result.hasMore THEN "running" ELSE "done")

\* ------------------------------------------------------------------------
\* The diff generator (src/src/diff/generator.ts)
\* ------------------------------------------------------------------------

\* CACHE_TTL (one hour) in clock ticks; MAX_DIFF_SIZE (100KB) in change
\* entries of the serialized diff; chunkSize (50000 characters) in changes
\* of one category that lie in the first chunk of a large document.
CacheTtlTicks == 2
DiffSizeCap == 4
ChunkChanges == 1

\* A change is its priority; the three detectors give these priorities.
ContentPriorities == {3, 4, 5}
StylePriorities == {1, 2}
StructurePriorities == {2}

SeqsUpTo(P, n) == UNION {[1..k -> P] : k \in 0..n}

\* The changes classifyChanges finds between two versions.
ChangeLists ==
    [content : SeqsUpTo(ContentPriorities, MaxListLen),
     style : SeqsUpTo(StylePriorities, MaxListLen),
     structure : SeqsUpTo(StructurePriorities, MaxListLen)]

\* A pair of versions to compare: whether the longer one exceeds
\* PROGRESSIVE_LOAD_THRESHOLD, and the changes between them.
Comparisons == [large : BOOLEAN, full : ChangeLists]

\* The changes between the first chunks of the two versions.
PrefixChanges(lists) ==
    [content |-> JsSlice(lists.content, 0, ChunkChanges),
     style |-> JsSlice(lists.style, 0, ChunkChanges),
     structure |-> JsSlice(lists.structure, 0, ChunkChanges)]

DiffOptions(max, progressive, cache) ==
    [includeContent |-> TRUE, includeStyle |-> TRUE, includeStructure |-> TRUE,
     maxChanges |-> max, progressiveLoad |-> progressive, cacheEnabled |-> cache]

Sites == {"s1", "s2"}
DiffDates == {1}
DiffUrls == {"u1", "u2"}

\* The last part of a cache key: the text that the template literal makes of
\* ContentComparer.calculateHash(url), which is a promise and is not awaited.
UrlKeyPart(url) == "[object Promise]"
KeyParts == DiffUrls \cup {"[object Promise]"}

\* getCacheKey
GetCacheKey(site, date, url) == <<site, date, UrlKeyPart(url)>>
CacheKeys == Sites \X DiffDates \X KeyParts

\* ContentComparer.classifyChanges, given the changes the detectors find.
ClassifyChanges(url, date, lists) ==
    [url |-> url, date |-> date, classification |-> lists,
     summary |-> [totalChanges |-> Len(lists.content) + Len(lists.style) + Len(lists.structure),
                  contentChanges |-> Len(lists.content),
                  styleChanges |-> Len(lists.style),
                  structureChanges |-> Len(lists.structure)],
     isPartial |-> FALSE]

\* generateProgressiveDiff: the first chunks are compared, the result is
\* marked partial.
GenerateProgressiveDiff(url, date, cmp) ==
    [ClassifyChanges(url, date, PrefixChanges(cmp.full)) EXCEPT !.isPartial = TRUE]

\* A sort that leaves the list as it is.
SortKeepOrder(changes) == changes

\* Array.prototype.sort((a, b) => b.priority - a.priority): a stable sort by
\* descending priority (insertion of each element after its equals).
RECURSIVE SortByPriority(_)
SortByPriority(changes) ==
    IF changes = << >> THEN << >>
    ELSE LET sorted == SortByPriority(SubSeq(changes, 1, Len(changes) - 1))
             x      == changes[Len(changes)]
             k      == Cardinality({i \in 1..Len(sorted) : sorted[i] >= x})
         IN  SubSeq(sorted, 1, k) \o <<x>> \o SubSeq(sorted, k + 1, Len(sorted))

\* limitChanges: each category sorted by priority and cut to its share of
\* maxChanges (60%, 20%, 20%, rounded down), the counts recomputed.
LimitChanges(diff, maxChanges) ==
    LET content   == JsSlice(SortByPriority(diff.classification.content), 0,
                             (maxChanges * 6) \div 10)
        style     == JsSlice(SortByPriority(diff.classification.style), 0,
                             (maxChanges * 2) \div 10)
        structure == JsSlice(SortByPriority(diff.classification.structure), 0,
                             (maxChanges * 2) \div 10)
    IN  [diff EXCEPT !.classification =
                        [content |-> content, style |-> style, structure |-> structure],
                     !.summary =
                        [totalChanges |-> Len(content) + Len(style) + Len(structure),
                         contentChanges |-> Len(content),
                         styleChanges |-> Len(style),
                         structureChanges |-> Len(structure)]]

\* getCachedDiff: the diff of the entry under the key unless there is none
\* or it has expired (then it is deleted); gives [diff, cache].
GetCachedDiff(cacheKey) ==
    IF ~IsSome(diffCache[cacheKey]) THEN [diff |-> None, cache |-> diffCache]
    ELSE IF now > Get(diffCache[cacheKey]).expiresAt
    THEN [diff |-> None, cache |-> [diffCache EXCEPT ![cacheKey] = None]]
    ELSE [diff |-> Some(Get(diffCache[cacheKey]).diff), cache |-> diffCache]

\* JSON.stringify(entry).length, in change entries.
SerializedSize(diff) ==
    Len(diff.classification.content) + Len(diff.classification.style)
        + Len(diff.classification.structure)

\* A cache that stores an entry whatever its size.
CacheDiffAnySize(cache, cacheKey, diff) ==
    [cache EXCEPT ![cacheKey] =
        Some([key |-> cacheKey, diff |-> diff, expiresAt |-> now + CacheTtlTicks])]

\* cacheDiff: the entry is written unless it is larger than the cap.
CacheDiff(cache, cacheKey, diff) ==
    IF SerializedSize(diff) > DiffSizeCap THEN cache
    ELSE [cache EXCEPT ![cacheKey] =
             Some([key |-> cacheKey, diff |-> diff, expiresAt |-> now + CacheTtlTicks])]

\* generateDiff as a whole; gives the diff returned, whether it came from
\* the cache, which versions were compared, and the cache afterwards.
GenerateDiffOutcome(site, date, url, cmp, options) ==
    LET cacheKey == GetCacheKey(site, date, url)
        lookup   == IF options.cacheEnabled THEN GetCachedDiff(cacheKey)
                    ELSE [diff |-> None, cache |-> diffCache]
        progressive == cmp.large /\ options.progressiveLoad
        classified  == IF progressive THEN GenerateProgressiveDiff(url, date, cmp)
                       ELSE ClassifyChanges(url, date, cmp.full)
        noContent   == IF options.includeContent THEN classified
                       ELSE [classified EXCEPT !.classification.content = << >>,
                                               !.summary.contentChanges = 0]
        noStyle     == IF options.includeStyle THEN noContent
                       ELSE [noContent EXCEPT !.classification.style = << >>,
                                              !.summary.styleChanges = 0]
        included    == IF options.includeStructure THEN noStyle
                       ELSE [noStyle EXCEPT !.classification.structure = << >>,
                                            !.summary.structureChanges = 0]
        \* options.maxChanges is used when it is a number other than 0
        hasMax      == IsSome(options.maxChanges) /\ Get(options.maxChanges) # 0
        limiting    == hasMax /\ included.summary.totalChanges > Get(options.maxChanges)
        limited     == IF limiting THEN LimitChanges(included, Get(options.maxChanges))
                       ELSE included
        diff        == [limited EXCEPT !.isPartial =
                           hasMax /\ limited.summary.totalChanges > Get(options.maxChanges)]
    IN  IF IsSome(lookup.diff)
        THEN [diff |-> Get(lookup.diff), fromCache |-> TRUE, entry |-> diffCache[cacheKey],
              compared |-> "nothing", limited |-> FALSE,
              before |-> Get(lookup.diff).classification, cache |-> lookup.cache]
        ELSE [diff |-> diff, fromCache |-> FALSE, entry |-> None,
              compared |-> IF progressive THEN "prefix" ELSE "full",
              limited |-> limiting, before |-> included.classification,
              cache |-> IF options.cacheEnabled THEN CacheDiff(lookup.cache, cacheKey, diff)
                        ELSE lookup.cache]

\* ------------------------------------------------------------------------
\* The state machine
\* ------------------------------------------------------------------------

Keys == Dates \X Pages

\* The progress keys of a second site: none, or a scan in progress with a
\* cached URL list.
OtherSiteIdle == [batchProgress |-> None, fullScan |-> None, urlsCache |-> {}]
OtherSiteBusy == [batchProgress |-> Some([nextOffset |-> 1, totalUrls |-> 2]),
                  fullScan |-> Some([date |-> 1, totalUrls |-> 2]),
                  urlsCache |-> {1}]

\* The backup fetcher on the given day: nothing is stored yet; every page
\* of the set P is up.
InitFetcherFrom(P, day) ==
    /\ pages = [u \in P |-> [body |-> 1, noise |-> 1]]
    /\ today = day
    /\ envChanges = 0
    /\ batchProgress = None
    /\ fullScan = None
    /\ sitemapState = None
    /\ latest = [u \in P |-> None]
    /\ prevLatest = [u \in P |-> None]
    /\ backups = [k \in Dates \X P |-> None]
    /\ metas = [k \in Dates \X P |-> None]
    /\ sitemapListener = None
    /\ sitemapSnapshot = None
    /\ urlsCache = {}
    /\ others = OtherSiteIdle
    /\ kvFault = "none"
    /\ reset = None
    /\ last = None
    /\ cycle = [phase |-> "none", regular |-> FALSE, sum |-> 0, urls |-> << >>]

InitFetcherOn(P) == InitFetcherFrom(P, 1)

\* The diff generator: an empty cache, no call made.
InitDiffCache ==
    /\ diffCache = [k \in CacheKeys |-> None]
    /\ now = 0
    /\ diffCall = None
    /\ normCall = None
    /\ parserCall = None
    /\ fetchRun = None
    /\ invocations = [w \in Workers |-> None]

\* Nothing is stored yet; every page of the set P is up.
InitStoreOn(P) ==
    /\ InitFetcherOn(P)
    /\ InitDiffCache
    /\ input = None

InitStore == InitStoreOn(Pages)

Init ==
    /\ \E w \in Worlds : config = w[1] /\ server = w[2] /\ web = w[3]
    /\ InitStore

\* One call of performSiteBackup(siteConfig, opts), run to completion.
PerformSiteBackup(opts) ==
    \E out \in {PerformOutcome(opts)} :
        /\ batchProgress' = out.kv.batchProgress
        /\ fullScan' = out.kv.fullScan
        /\ sitemapState' = out.kv.sitemapState
        /\ latest' = out.kv.latest
        /\ prevLatest' = out.kv.prevLatest
        /\ backups' = out.kv.backups
        /\ metas' = out.kv.metas
        /\ last' = Some([opts |-> opts,
                         preProgress |-> batchProgress,
                         preFullScan |-> fullScan,
                         preSitemapState |-> sitemapState,
                         preLatest |-> latest,
                         preToday |-> today,
                         preListener |-> sitemapListener,
                         afterReset |-> reset,
                         fault |-> kvFault,
                         out |-> [out EXCEPT !.kv = None]])
        /\ cycle' = IF out.thrown THEN Irregular("none") ELSE NextCycle(opts, out)
        /\ kvFault' = "none"
        /\ reset' = None
        /\ UNCHANGED diffVars
        /\ UNCHANGED <<config, server, web, pages, today, envChanges,
                       sitemapListener, sitemapSnapshot, urlsCache, others>>

\* The site publishes other sitemap documents, or the sitemap server fails.
ChangeWeb(w) ==
    /\ envChanges < MaxEnv
    /\ config.sitemapUrl
    /\ <<web, w>> \in WebChanges
    /\ web' = w
    /\ envChanges' = envChanges + 1
    /\ last' = None
    /\ cycle' = IF cycle.phase = "running" THEN Irregular("running") ELSE cycle
    /\ reset' = None
    /\ UNCHANGED diffVars
    /\ UNCHANGED <<kvFault, config, server, pages, today, kvVars>>

\* A page serves other content, or fails.
ChangePage(u, c) ==
    /\ envChanges < MaxEnv
    /\ c # pages[u]
    /\ pages' = [pages EXCEPT ![u] = c]
    /\ envChanges' = envChanges + 1
    /\ last' = None
    /\ reset' = None
    /\ UNCHANGED diffVars
    /\ UNCHANGED <<kvFault, config, server, web, today, kvVars, cycle>>

\* Midnight UTC passes.
NextDay ==
    /\ envChanges < MaxEnv
    /\ today < MaxDay
    /\ today' = today + 1
    /\ envChanges' = envChanges + 1
    /\ last' = None
    /\ reset' = None
    /\ UNCHANGED diffVars
    /\ UNCHANGED <<kvFault, config, server, web, pages, kvVars, cycle>>

\* The orchestrator under a changing sitemap and passing days.
Next ==
    \/ \E opts \in BatchOptions : PerformSiteBackup(opts)
    \/ \E w \in Webs : ChangeWeb(w)
    \/ NextDay

Spec == Init /\ [][Next]_vars

\* The orchestrator under changing page content, on the sites whose URL
\* list is stable.
InitPages ==
    /\ \E w \in {<<SitemapSite, "none", WebFlat(1)>>, <<SitemapSite, "none", WebShared>>,
                  <<UrlListSite, "none", WebDown>>} :
          config = w[1] /\ server = w[2] /\ web = w[3]
    /\ InitStore

NextPages ==
    \/ \E opts \in BatchOptions : PerformSiteBackup(opts)
    \/ \E u \in VolatilePages, c \in Contents \cup {PageDown} : ChangePage(u, c)

SpecPages == InitPages /\ [][NextPages]_vars

\* A resetSiteProgress that leaves full_scan:{site} in place.
ResetKvKeepFullScan(kv) == [kv EXCEPT !.batchProgress = None, !.urlsCache = {}]

\* resetSiteProgress(siteId) on the keys of the site: batch_progress:{site}
\* and full_scan:{site} are deleted, and every key that
\* list({prefix: urls_cache:{site}:}) returns.
ResetKv(kv) == [kv EXCEPT !.batchProgress = None, !.fullScan = None, !.urlsCache = {}]

\* POST /api/backup/reset for the site.
ResetSiteProgress ==
    LET kv == ResetKv([batchProgress |-> batchProgress, fullScan |-> fullScan,
                       urlsCache |-> urlsCache])
    IN  /\ batchProgress' = kv.batchProgress
        /\ fullScan' = kv.fullScan
        /\ urlsCache' = kv.urlsCache
        /\ reset' = Some([others |-> others, batchProgress |-> batchProgress,
                          fullScan |-> fullScan, urlsCache |-> urlsCache])
        /\ last' = None
        /\ UNCHANGED diffVars
        /\ cycle' = Irregular("none")
        /\ UNCHANGED <<kvFault, config, server, web, pages, today, envChanges, sitemapState,
                       latest, prevLatest, backups, metas, sitemapListener,
                       sitemapSnapshot, others>>

\* The resolved URL list of the site is cached for today.
PutUrlsCache ==
    /\ today \notin urlsCache
    /\ urlsCache' = urlsCache \cup {today}
    /\ reset' = None
    /\ UNCHANGED diffVars
    /\ last' = None
    /\ UNCHANGED <<kvFault, config, server, web, pages, today, envChanges, batchProgress,
                   fullScan, sitemapState, latest, prevLatest, backups, metas,
                   sitemapListener, sitemapSnapshot, others, cycle>>

\* The other site starts or finishes a scan.
OtherSiteRuns ==
    /\ others' = IF others = OtherSiteIdle THEN OtherSiteBusy ELSE OtherSiteIdle
    /\ reset' = None
    /\ UNCHANGED diffVars
    /\ last' = None
    /\ UNCHANGED <<kvFault, config, server, web, pages, today, envChanges, batchProgress,
                   fullScan, sitemapState, latest, prevLatest, backups, metas,
                   sitemapListener, sitemapSnapshot, urlsCache, cycle>>

\* Scans and resets of a site, next to another site.
InitReset ==
    /\ \E w \in {<<SitemapSite, "none", WebFlat(1)>>, <<UrlListSite, "none", WebDown>>} :
          config = w[1] /\ server = w[2] /\ web = w[3]
    /\ InitStore

NextReset ==
    \/ \E opts \in BatchOptions : PerformSiteBackup(opts)
    \/ ResetSiteProgress
    \/ PutUrlsCache
    \/ OtherSiteRuns

SpecReset == InitReset /\ [][NextReset]_vars

\* A key-value operation starts to fail: it throws when the next call of
\* performSiteBackup executes it.
FailKv(f) ==
    /\ kvFault = "none"
    /\ kvFault' = f
    /\ reset' = None
    /\ UNCHANGED diffVars
    /\ last' = None
    /\ UNCHANGED <<config, server, web, pages, today, envChanges, kvVars, cycle>>

\* The calls and the site of the runs with failures.
StoreOptions ==
    { Options(None, None, TRUE), Options(Some(2), None, TRUE), Options(Some(2), None, FALSE) }

InitStoreFaults ==
    /\ config = SitemapSite /\ server = "none" /\ web = WebFlat(1)
    /\ InitStore

\* The orchestrator over a key-value store whose operations may fail and
\* pages that may fail.
NextFaults ==
    \/ \E opts \in StoreOptions : PerformSiteBackup(opts)
    \/ \E u \in VolatilePages, c \in Contents \cup {PageDown} : ChangePage(u, c)
    \/ \E f \in KvFaults : FailKv(f)

SpecFaults == InitStoreFaults /\ [][NextFaults]_vars

\* The orchestrator over pages that may fail and a key-value store whose
\* content writes may fail.
NextStore ==
    \/ \E opts \in StoreOptions : PerformSiteBackup(opts)
    \/ \E u \in VolatilePages, c \in Contents \cup {PageDown} : ChangePage(u, c)
    \/ FailKv("put:backup")

SpecStore == InitStoreFaults /\ [][NextStore]_vars

\* The scheduler's calls on a large site whose sitemap gains a URL.
LargeOptions == {Options(None, None, TRUE), Options(Some(MAX_BATCH_SIZE), None, TRUE)}

InitLarge ==
    /\ config = SitemapSite /\ server = "none" /\ web = WebLarge
    /\ InitStoreOn(LargePages)

NextLarge ==
    \/ \E opts \in LargeOptions : PerformSiteBackup(opts)
    \/ \E w \in Webs : ChangeWeb(w)
    \/ NextDay

SpecLarge == InitLarge /\ [][NextLarge]_vars

\* ------------------------------------------------------------------------
\* Properties
\* ------------------------------------------------------------------------

Called == IsSome(last)
Call == Get(last)
Result == Get(last).out.result

Range(s) == {s[i] : i \in 1..Len(s)}

\* The offset the claims expect a call to start at.
CallerOffset(opts) == IF IsSome(opts.batchOffset) THEN Get(opts.batchOffset) ELSE 0

C2_OffsetWithinTotal ==
    Called => Result.batchOffset + Result.processedInBatch <= Result.totalUrls

\* C3: one resolution fetches at most (number of distinct sitemap URLs) + 1
\* sitemaps, also when the index documents form a cycle.
C3_BoundedFetches ==
    Called => Len(Call.out.sitemapFetches) <= Cardinality(Range(Call.out.sitemapFetches)) + 1

\* C4: one resolution fetches each distinct sitemap URL at most once.
C4_FetchedOnce ==
    Called => Len(Call.out.sitemapFetches) = Cardinality(Range(Call.out.sitemapFetches))

\* C5: after a call that processed a batch, with n = batchOffset +
\* processedInBatch: if n < totalUrls the result has hasMore and nextOffset = n
\* and the stored BatchProgress holds n; otherwise the result has no more and
\* no nextOffset, no BatchProgress is stored and a FullScanState dated today
\* is. A stored BatchProgress always has nextOffset < totalUrls.
C5_ProgressOrComplete ==
    /\ (Called /\ Result.processedInBatch > 0) =>
          LET n == Result.batchOffset + Result.processedInBatch
          IN  IF n < Result.totalUrls
              THEN /\ Result.hasMore
                   /\ Result.nextOffset = Some(n)
                   /\ IsSome(batchProgress)
                   /\ Get(batchProgress).nextOffset = n
              ELSE /\ ~Result.hasMore
                   /\ Result.nextOffset = None
                   /\ batchProgress = None
                   /\ IsSome(fullScan)
                   /\ Get(fullScan).date = today
    /\ IsSome(batchProgress) =>
          Get(batchProgress).nextOffset < Get(batchProgress).totalUrls

\* C5 witness: the last batch of a cycle that was resumed from saved progress.
C5_Witness ==
    /\ Called /\ Result.processedInBatch > 0
    /\ IsSome(Call.preProgress)
    /\ ~Result.hasMore /\ batchProgress = None /\ IsSome(fullScan)

\* C6: with continueFromLast and a stored BatchProgress the batch starts at
\* the stored nextOffset, whatever batchOffset the caller gave; otherwise it
\* starts at the caller's batchOffset (default 0). The first page fetched is
\* the URL at that index.
C6_ResumeOffset ==
    Called =>
        LET expected == IF Call.opts.continueFromLast /\ IsSome(Call.preProgress)
                        THEN Get(Call.preProgress).nextOffset
                        ELSE CallerOffset(Call.opts)
        IN  /\ Result.batchOffset = expected
            /\ Call.out.pageFetches # << >> =>
                  Call.out.pageFetches[1] = Call.out.allUrls[expected + 1]

\* C6 witness: the caller gave offset 1, the stored offset 2 was used.
C6_Witness ==
    /\ Called /\ Call.opts.continueFromLast
    /\ Call.opts.batchOffset = Some(1)
    /\ IsSome(Call.preProgress) /\ Get(Call.preProgress).nextOffset = 2
    /\ Result.batchOffset = 2 /\ Result.processedInBatch = 1

\* The call would start at offset 0 with no stored progress while a
\* FullScanState dated today exists, on an explicit URL-list site or with the
\* sitemap-change check reporting unchanged.
DailyCheckCase ==
    /\ Called
    /\ Call.preProgress = None
    /\ CallerOffset(Call.opts) = 0
    /\ IsSome(Call.preFullScan)
    /\ Get(Call.preFullScan).date = Call.preToday
    /\ ~config.sitemapUrl \/ Call.out.sitemapCheck = Some(FALSE)

\* The result is the no-op result, no page was fetched and BatchProgress and
\* FullScanState are as before the call.
NoopCall ==
    /\ Result.totalUrls = 0 /\ Result.processedInBatch = 0 /\ ~Result.hasMore
    /\ Call.out.pageFetches = << >>
    /\ batchProgress = Call.preProgress
    /\ fullScan = Call.preFullScan

\* C7 as stated: every call in the daily-check case is a no-op.
C7_NoopOncePerDay == DailyCheckCase => NoopCall

\* C7 amended: every call with continueFromLast in the daily-check case is a
\* no-op.
C7_NoopWhenContinuing ==
    (DailyCheckCase /\ Call.opts.continueFromLast) => NoopCall

\* C7 witness: a no-op on a sitemap-driven site whose sitemap is unchanged.
C7_Witness ==
    /\ DailyCheckCase /\ Call.opts.continueFromLast
    /\ config.sitemapUrl /\ Call.out.sitemapCheck = Some(FALSE)
    /\ NoopCall

\* C8: a call whose sitemap resolution fails and yields no URL leaves the
\* stored BatchProgress as it was.
C8_FailureKeepsProgress ==
    (/\ Called
     /\ Call.out.sitemapFetches # << >>
     /\ web[RootSitemap].kind = "down"
     /\ Call.out.allUrls = << >>) => batchProgress = Call.preProgress

\* C9: a successfully fetched URL is in changedUrls iff no latest record was
\* stored for it or the comparable hash of the stored record differs from the
\* normalized hash of the content fetched; in particular an equal normalized
\* hash is never reported, whatever the raw hashes.
C9_ChangedIffHashDiffers ==
    Called =>
        \A i \in 1..Len(Result.results) :
            LET u      == Result.results[i].url
                stored == Call.preLatest[u]
            IN  Result.results[i].success =>
                  /\ (u \in Range(Result.changedUrls)) <=>
                        \/ stored = None
                        \/ ComparableHash(Get(stored)) # CalculateNormalizedHash(pages[u])
                  /\ stored = None => u \in Range(Result.changedUrls)
                  /\ (/\ stored # None
                      /\ Get(stored).normalizedHash = Some(CalculateNormalizedHash(pages[u])))
                        => u \notin Range(Result.changedUrls)

\* C9 witness: a page whose raw hash changed and whose normalized hash did
\* not was fetched and not reported.
C9_Witness ==
    /\ Called
    /\ \E i \in 1..Len(Result.results) :
          LET u == Result.results[i].url
          IN  /\ Result.results[i].success
              /\ IsSome(Call.preLatest[u])
              /\ Get(Call.preLatest[u]).hash # CalculateHash(pages[u])
              /\ Get(Call.preLatest[u]).normalizedHash = Some(CalculateNormalizedHash(pages[u]))
              /\ u \notin Range(Result.changedUrls)

\* C10: on a sitemap-driven site whose full scan completed today, a run that
\* finds the same <loc> list with other <lastmod> values than the sitemap
\* last recorded fetches no page and returns totalUrls = 0 and
\* processedInBatch = 0.
C10_LastmodOnlyIsNoop ==
    (/\ Called
     /\ config.sitemapUrl /\ config.urls = << >>
     /\ Call.opts.continueFromLast
     /\ Call.preProgress = None
     /\ CallerOffset(Call.opts) = 0
     /\ IsSome(Call.preFullScan)
     /\ Get(Call.preFullScan).date = Call.preToday
     /\ IsSome(Call.preSitemapState)
     /\ LET seen == Get(Get(Call.preSitemapState).contentHash)
            live == web[RootSitemap]
        IN  /\ seen.kind = "urlset" /\ live.kind = "urlset"
            /\ seen.locs = live.locs
            /\ seen.lastmod # live.lastmod)
    => /\ Call.out.pageFetches = << >>
       /\ Result.totalUrls = 0
       /\ Result.processedInBatch = 0

\* The run resolved the sitemap of a sitemap-driven site to more URLs than
\* the large-site threshold.
ResolvedLarge ==
    /\ Called
    /\ config.sitemapUrl /\ config.urls = << >>
    /\ Call.out.sitemapFetches # << >>
    /\ Len(Call.out.allUrls) > ListenerThreshold

\* C11: a run that resolves the sitemap to more than 100 URLs, for a site
\* not yet in listener mode, sets sitemap_listener:{site}, stores a snapshot
\* of the URL set in sitemap_snapshot:{site}, fetches no page and returns
\* totalUrls = 0 and processedInBatch = 0.
C11_EnablesListenerMode ==
    (ResolvedLarge /\ Call.preListener = None) =>
        /\ IsSome(sitemapListener)
        /\ sitemapSnapshot = Some(Range(Call.out.allUrls))
        /\ Call.out.pageFetches = << >>
        /\ Result.totalUrls = 0
        /\ Result.processedInBatch = 0

\* The sitemap of more than 100 URLs an earlier run recorded (the run that,
\* by C11, put the site in listener mode with these URLs as snapshot), and
\* the URLs of the live sitemap that are not among them.
SeenSitemap == Get(Get(Call.preSitemapState).contentHash)
NewUrls == Range(web[RootSitemap].locs) \ Range(SeenSitemap.locs)

\* C12: for a site in listener mode, a run processes exactly the URLs of the
\* live sitemap that are not in the snapshot (one new <loc>: totalUrls = 1
\* and one page fetch, of that URL) and then stores the live URL set as the
\* snapshot.
C12_OnlyNewUrls ==
    (/\ Called
     /\ config.sitemapUrl /\ config.urls = << >>
     /\ IsSome(Call.preSitemapState)
     /\ SeenSitemap.kind = "urlset"
     /\ Len(SeenSitemap.locs) > ListenerThreshold
     /\ web[RootSitemap].kind = "urlset"
     /\ NewUrls # {})
    => /\ Result.totalUrls = Cardinality(NewUrls)
       /\ Range(Call.out.pageFetches) = NewUrls
       /\ Len(Call.out.pageFetches) = Cardinality(NewUrls)
       /\ sitemapSnapshot = Some(Range(web[RootSitemap].locs))

\* C13: resetSiteProgress removes the site's BatchProgress, its FullScanState
\* and every urls_cache key of the site and leaves the keys of the other
\* site as they were; the call of performSiteBackup that follows starts at
\* the caller's offset (0 by default) and is not answered with the no-op
\* result.
C13_ResetClearsProgress ==
    /\ IsSome(reset) =>
          /\ batchProgress = None
          /\ fullScan = None
          /\ urlsCache = {}
          /\ others = Get(reset).others
    /\ (Called /\ IsSome(Call.afterReset)) =>
          /\ Result.batchOffset = CallerOffset(Call.opts)
          /\ ~Call.out.noop

\* C13 witness: a reset removed stored progress, a full scan record and a
\* cached URL list while the other site had keys of its own, and the
\* scheduler's next call started at offset 0 and processed a batch.
C13_Witness ==
    /\ Called /\ IsSome(Call.afterReset)
    /\ IsSome(Get(Call.afterReset).batchProgress)
    /\ IsSome(Get(Call.afterReset).fullScan)
    /\ Get(Call.afterReset).urlsCache # {}
    /\ Call.opts.continueFromLast /\ Call.opts.batchOffset = None
    /\ Result.batchOffset = 0 /\ Result.processedInBatch > 0
    /\ others = OtherSiteBusy

\* C14: performSiteBackup never throws: when a key-value get, put, delete or
\* list fails during the call, the call still returns a result, and the
\* result's error list has an entry for the failure besides those of the
\* failed URLs.
C14_NeverThrows ==
    Called =>
        /\ ~Call.out.thrown
        /\ Call.out.kvHit => Len(Result.errors) > Result.failedBackups

\* C15: every URL of the batch has exactly one entry in results, in the
\* order of the batch, a success with metadata or a failure with an error
\* string, whether other URLs of the batch fail to be fetched or stored;
\* successfulBackups + failedBackups = processedInBatch = results.length and
\* errors has one entry per failed URL.
C15_OneResultPerUrl ==
    Called =>
        /\ Len(Result.results) = Len(Call.out.pageFetches)
        /\ \A i \in 1..Len(Result.results) :
              LET r == Result.results[i]
              IN  /\ r.url = Call.out.pageFetches[i]
                  /\ IF r.success THEN r.metadata /\ ~r.error
                                  ELSE r.error /\ ~r.metadata
        /\ Result.processedInBatch = Len(Result.results)
        /\ Result.successfulBackups + Result.failedBackups = Result.processedInBatch
        /\ Result.successfulBackups =
              Cardinality({i \in 1..Len(Result.results) : Result.results[i].success})
        /\ Len(Result.errors) = Result.failedBackups

\* C15 witness: a batch of two URLs, the first failed to be fetched, the
\* second was fetched and failed to be stored.
C15_Witness ==
    /\ Called /\ Result.processedInBatch = 2
    /\ ~Result.results[1].success /\ Result.results[2].success
    /\ Call.out.failedStores = 1
    /\ Len(Result.errors) = 1

\* C16: when the key-value write of a fetched URL's content fails, a count
\* in the result tells the URLs fetched and stored from the URLs fetched and
\* not stored: successfulBackups counts only the stored ones, or the error
\* list has an entry for each store failure besides those of the failed
\* fetches.
C16_StoreFailuresCounted ==
    (Called /\ Call.out.failedStores > 0) =>
        \/ Result.successfulBackups =
              Cardinality({i \in 1..Len(Result.results) : Result.results[i].success})
                 - Call.out.failedStores
        \/ Len(Result.errors) = Result.failedBackups + Call.out.failedStores

\* ------------------------------------------------------------------------
\* Retention cleanup over several days
\* ------------------------------------------------------------------------

\* The next day begins.
DayPasses ==
    /\ today < MaxDay
    /\ today' = today + 1
    /\ last' = None
    /\ reset' = None
    /\ UNCHANGED diffVars
    /\ UNCHANGED <<kvFault, config, server, web, pages, envChanges, kvVars, cycle>>

\* The scheduler's continuation calls on a site with a URL list, in one
\* batch and in batches of two and of one, and a manual run of one batch.
CleanupOptions ==
    { Options(None, None, TRUE), Options(Some(2), None, TRUE),
      Options(Some(1), None, TRUE), Options(Some(2), None, FALSE) }

InitCleanup ==
    /\ config = UrlListSite /\ server = "none" /\ web = WebDown
    /\ InitFetcherFrom(Pages, 0)
    /\ InitDiffCache
    /\ input = None

NextCleanup ==
    \/ \E opts \in CleanupOptions : PerformSiteBackup(opts)
    \/ DayPasses

SpecCleanup == InitCleanup /\ [][NextCleanup]_vars

Cleanup == Call.out.cleanup
CutoffOfCall == Call.preToday - config.retentionDays

C28_NoCleanupAfterFirstBatch ==
    [][ (IsSome(last') /\ Get(last').out.result.batchOffset > 0) =>
            /\ ~Get(last').out.cleanup.ran
            /\ \A key \in DOMAIN backups :
                  /\ IsSome(backups[key]) => IsSome(backups'[key])
                  /\ IsSome(metas[key]) => IsSome(metas'[key]) ]_vars

\* C28 witness: a batch at an offset greater than 0 was processed while an
\* entry older than the cutoff was stored; the entry is still there.
C28_Witness ==
    /\ Called /\ Result.batchOffset > 0 /\ Result.processedInBatch > 0
    /\ ~Cleanup.ran
    /\ \E key \in DOMAIN backups :
          key[1] < CutoffOfCall /\ IsSome(backups[key]) /\ IsSome(metas[key])

\* C29: after a retention cleanup has run without error, no backup: or
\* meta: entry dated earlier than today minus retentionDays remains.
C29_CleanupLeavesNothingOld ==
    (Called /\ Cleanup.ran /\ ~Call.out.thrown) =>
        \A key \in DOMAIN backups :
            key[1] < CutoffOfCall => ~IsSome(backups[key]) /\ ~IsSome(metas[key])

\* C23: a call that continues from saved progress on a sitemap-driven site
\* whose URL list is cached for today fetches no sitemap.
C23_CachedUrlsNoSitemapFetch ==
    ( /\ Called /\ ~Call.out.thrown
      /\ config.sitemapUrl
      /\ Call.opts.continueFromLast /\ IsSome(Call.preProgress)
      /\ Call.preToday \in urlsCache ) =>
        Call.out.sitemapFetches = << >>

\* C24: when the once-per-day check asks a server that ignores validators
\* (a 200 with the full body although a stored etag or last-modified was
\* sent) and the body's hash equals the stored content hash, the sitemap is
\* found unchanged and the call is a no-op.
C24_SameBodyIsUnchanged ==
    ( /\ Called /\ ~Call.out.thrown
      /\ IsSome(Call.out.sitemapCheck)
      /\ server = "ignore"
      /\ web[RootSitemap].kind # "down"
      /\ IsSome(Call.preSitemapState)
      /\ \/ IsSome(Get(Call.preSitemapState).etag)
         \/ IsSome(Get(Call.preSitemapState).lastModified)
      /\ Get(Call.preSitemapState).contentHash = Some(SitemapHash(web[RootSitemap])) ) =>
        /\ Call.out.sitemapCheck = Some(FALSE)
        /\ Call.out.noop

\* ------------------------------------------------------------------------
\* Records of an earlier version
\* ------------------------------------------------------------------------

\* An earlier version of the fetcher, which recorded no normalized hash,
\* stored the page: latest:{site}:{urlHash} has only the raw hash.
LegacyStore(u) ==
    /\ pages[u] # PageDown
    /\ ~IsSome(latest[u])
    /\ latest' = [latest EXCEPT ![u] =
                     Some([url |-> u, timestamp |-> today, hash |-> CalculateHash(pages[u]),
                           normalizedHash |-> None])]
    /\ last' = None
    /\ reset' = None
    /\ UNCHANGED diffVars
    /\ UNCHANGED <<kvFault, config, server, web, pages, today, envChanges, batchProgress,
                   fullScan, sitemapState, prevLatest, backups, metas, sitemapListener,
                   sitemapSnapshot, urlsCache, others, cycle>>

LegacyPages == {1, 2}

NextLegacy ==
    \/ \E opts \in StoreOptions : PerformSiteBackup(opts)
    \/ \E u \in VolatilePages, c \in Contents \cup {PageDown} : ChangePage(u, c)
    \/ \E u \in LegacyPages : LegacyStore(u)

SpecLegacy == InitStoreFaults /\ [][NextLegacy]_vars

\* C25: a fetched URL whose stored latest record has no normalized hash and
\* whose raw hash equals the stored raw hash is not reported changed.
C25_LegacyComparesRawHashes ==
    (Called /\ ~Call.out.thrown) =>
        \A i \in 1..Len(Result.results) :
            LET u == Result.results[i].url
            IN  ( /\ Result.results[i].success
                  /\ IsSome(Call.preLatest[u])
                  /\ ~IsSome(Get(Call.preLatest[u]).normalizedHash)
                  /\ Get(Call.preLatest[u]).hash = CalculateHash(pages[u]) ) =>
                    u \notin Range(Result.changedUrls)

\* C26: after a call, for each URL it stored, latest holds the new metadata
\* and, if a latest record existed before the call, prev_latest holds that
\* record; also for a URL that occurs more than once in the batch.
C26_PrevLatestIsPriorRecord ==
    (Called /\ ~Call.out.thrown) =>
        \A i \in 1..Len(Result.results) :
            LET u == Result.results[i].url
            IN  Result.results[i].success =>
                    /\ IsSome(latest[u])
                    /\ Get(latest[u]).hash = CalculateHash(pages[u])
                    /\ Get(latest[u]).timestamp = Call.preToday
                    /\ IsSome(Call.preLatest[u]) => prevLatest[u] = Call.preLatest[u]

\* A site with an explicit list of two URLs more than MAX_BATCH_SIZE.
ManyPages == 1..(MAX_BATCH_SIZE + 2)
ManyUrlsSite == [sitemapUrl |-> FALSE, urls |-> [i \in ManyPages |-> i],
                 excluded |-> {}, retentionDays |-> 1]

InitSizes ==
    /\ config = ManyUrlsSite /\ server = "none" /\ web = WebDown
    /\ InitStoreOn(ManyPages)

\* Batch sizes: calls on a site of more than MAX_BATCH_SIZE URLs with no
\* batchSize, one above the maximum, zero and a negative one, as the trigger
\* endpoint passes them on.
SizeOptions ==
    { Options(None, None, TRUE), Options(Some(MAX_BATCH_SIZE + 10), None, TRUE),
      Options(Some(0), None, FALSE), Options(Some(-1), None, FALSE),
      Options(Some(0), None, TRUE) }

NextSizes ==
    \/ \E opts \in SizeOptions : PerformSiteBackup(opts)
    \/ NextDay

SpecSizes == InitSizes /\ [][NextSizes]_vars

\* C32: the batch size of a result is min(requested or 25, 30), and no
\* result has processedInBatch above 30.
C32_BatchSizeClamped ==
    (Called /\ ~Call.out.thrown /\ ~Call.out.noop) =>
        /\ Result.batchSize =
              Min(IF IsSome(Call.opts.batchSize) THEN Get(Call.opts.batchSize)
                  ELSE DEFAULT_BATCH_SIZE, MAX_BATCH_SIZE)
        /\ Result.processedInBatch <= MAX_BATCH_SIZE

\* C36: a call that clears BatchProgress and writes a FullScanState leaves
\* no URL at or after its batch offset unprocessed: its batch reaches the
\* end of the URL list. A call with batchSize <= 0 on a site with
\* unprocessed URLs does not mark the scan complete.
C36_CompleteOnlyAtEnd ==
    (Called /\ ~Call.out.thrown /\ ~Call.out.noop
        /\ batchProgress = None /\ IsSome(fullScan) /\ fullScan # Call.preFullScan) =>
        Result.batchOffset + Result.processedInBatch >= Result.totalUrls

\* C37: after a call, every URL whose latest record the call set has the
\* dated content and the dated metadata of that fetch stored as well, also
\* when one of the writes failed.
C37_LatestOnlyWithContent ==
    Called =>
        \A u \in DOMAIN latest :
            (IsSome(latest[u]) /\ latest[u] # Call.preLatest[u]) =>
                LET key == <<Get(latest[u]).timestamp, u>>
                IN  /\ IsSome(backups[key])
                    /\ CalculateHash(Get(backups[key])) = Get(latest[u]).hash
                    /\ metas[key] = latest[u]

\* C38: for every URL with a prev_latest record, the content stored under
\* the date of that record, if any, has the raw hash the record holds; a
\* later store of the URL on the same date leaves that content in place.
C38_PrevLatestContentKept ==
    \A u \in DOMAIN prevLatest :
        IsSome(prevLatest[u]) =>
            LET key == <<Get(prevLatest[u]).timestamp, u>>
            IN  IsSome(backups[key]) =>
                    CalculateHash(Get(backups[key])) = Get(prevLatest[u]).hash

\* ------------------------------------------------------------------------
\* Overlapping invocations for one site
\* ------------------------------------------------------------------------

\* A call is followed from its reads (the progress record, the full scan
\* record, the URL list, the stored metadata) to its writes. What it reads
\* it reads when it begins; other calls may begin and complete before it
\* writes.

\* The scheduler's calls: continuation with a batch of one or of two URLs.
RaceOptions == {Options(Some(1), None, TRUE), Options(Some(2), None, TRUE)}

\* Whether worker w may begin a call: always, or, with a single writer per
\* site, when no call is in progress.
MayBegin(w) ==
    /\ invocations[w] = None
    /\ Get(input).singleWriter => \A v \in Workers : invocations[v] = None

\* Whether the call in progress of worker v read the stored offset that a
\* call reads now.
ReadSameOffset(v) ==
    /\ IsSome(invocations[v])
    /\ Get(invocations[v]).pre.batchProgress = batchProgress
    /\ Get(invocations[v]).pre.fullScan = fullScan

\* performSiteBackup begins: it loads the progress and resolves its batch.
Begin(w, opts) ==
    /\ IsSome(input)
    /\ MayBegin(w)
    /\ \E out \in {PerformOutcome(opts)} :
          invocations' =
              [v \in Workers |->
                  IF v = w
                  THEN Some([opts |-> opts, out |-> out, pre |-> CurrentKv,
                             day |-> today,
                             raced |-> \E u \in Workers \ {w} : ReadSameOffset(u)])
                  ELSE IF ReadSameOffset(v)
                  THEN Some([Get(invocations[v]) EXCEPT !.raced = TRUE])
                  ELSE invocations[v]]
    /\ UNCHANGED <<diffCache, now, diffCall, normCall, input, parserCall, fetchRun>>
    /\ UNCHANGED fetchVars

\* The keys a call wrote or deleted, applied to the store as it is now.
Merge(current, before, after) ==
    [k \in DOMAIN current |-> IF after[k] # before[k] THEN after[k] ELSE current[k]]

\* Whether the call reached the end of performSiteBackup, where it saves or
\* clears the progress.
ReachedEnd(out) == ~out.noop /\ ~out.thrown

\* performSiteBackup completes: it stores its batch and saves the progress,
\* or clears it and records the full scan.
Complete(w) ==
    /\ IsSome(invocations[w])
    /\ \E inv \in {Get(invocations[w])} :
          /\ batchProgress' = IF ReachedEnd(inv.out) THEN inv.out.kv.batchProgress
                              ELSE batchProgress
          /\ fullScan' = IF ReachedEnd(inv.out) /\ ~inv.out.result.hasMore
                         THEN inv.out.kv.fullScan ELSE fullScan
          /\ sitemapState' = IF inv.out.kv.sitemapState # inv.pre.sitemapState
                             THEN inv.out.kv.sitemapState ELSE sitemapState
          /\ latest' = Merge(latest, inv.pre.latest, inv.out.kv.latest)
          /\ prevLatest' = Merge(prevLatest, inv.pre.prevLatest, inv.out.kv.prevLatest)
          /\ backups' = Merge(backups, inv.pre.backups, inv.out.kv.backups)
          /\ metas' = Merge(metas, inv.pre.metas, inv.out.kv.metas)
          /\ last' = Some([opts |-> inv.opts,
                           preProgress |-> inv.pre.batchProgress,
                           preFullScan |-> inv.pre.fullScan,
                           preSitemapState |-> inv.pre.sitemapState,
                           preLatest |-> inv.pre.latest,
                           preToday |-> inv.day,
                           preListener |-> sitemapListener,
                           afterReset |-> None,
                           fault |-> "none",
                           raced |-> inv.raced,
                           out |-> [inv.out EXCEPT !.kv = None]])
          /\ cycle' = IF inv.out.thrown THEN Irregular("none")
                      ELSE NextCycle(inv.opts, inv.out)
    /\ invocations' = [invocations EXCEPT ![w] = None]
    /\ UNCHANGED <<diffCache, now, diffCall, normCall, input, parserCall, fetchRun>>
    /\ UNCHANGED <<config, server, web, pages, today, envChanges, sitemapListener,
                   sitemapSnapshot, urlsCache, others, kvFault, reset>>

InitRace ==
    /\ config = UrlListSite /\ server = "none" /\ web = WebDown
    /\ InitFetcherOn(Pages)
    /\ InitDiffCache
    /\ \E single \in BOOLEAN : input = Some([singleWriter |-> single])

NextRace ==
    \/ \E w \in Workers, opts \in RaceOptions : Begin(w, opts)
    \/ \E w \in Workers : Complete(w)

SpecRace == InitRace /\ [][NextRace]_vars

\* C35: with a single writer per site, no two calls read the same stored
\* offset, and the processedInBatch values of a cycle never sum to more
\* than totalUrls.
C35_SingleWriterNoDoubleBatch ==
    (IsSome(input) /\ Get(input).singleWriter) =>
        /\ \A w \in Workers : IsSome(invocations[w]) => ~Get(invocations[w]).raced
        /\ Called => ~Call.raced
        /\ cycle.regular => cycle.sum <= Len(cycle.urls)

\* C35 witness: two overlapping calls read the same stored offset and
\* processed the same batch, and the processedInBatch values of the cycle
\* sum to more than totalUrls.
C35_Witness ==
    /\ IsSome(input) /\ ~Get(input).singleWriter
    /\ Called /\ Call.raced
    /\ Call.preProgress = None
    /\ Result.batchOffset = 0 /\ Result.processedInBatch = 2
    /\ batchProgress = Some([nextOffset |-> 2, totalUrls |-> 3])
    /\ cycle.regular /\ cycle.sum = 4 /\ cycle.sum > Result.totalUrls

\* ------------------------------------------------------------------------
\* SitemapParser (src/backup/sitemap.ts)
\* ------------------------------------------------------------------------

\* A result without an error, and a result with one: the kind of the message
\* and the children it names.
ParseOk(urls) == [urls |-> urls, error |-> None]
ParseError(urls, kind, failed) ==
    [urls |-> urls, error |-> Some([kind |-> kind, failed |-> failed])]

\* parseUrlSet: the <loc> entries; a urlset without any is an error.
ParseUrlSet(doc) ==
    IF doc.locs = << >> THEN ParseError(<< >>, "No URLs found in sitemap", << >>)
    ELSE ParseOk(doc.locs)

RECURSIVE ParserParseSitemap(_)
RECURSIVE ParseSitemapIndex(_, _, _)

\* SitemapParser.parseSitemap: the document is fetched; an index is resolved
\* through its children, a urlset parsed.
ParserParseSitemap(url) ==
    CASE web[url].kind = "down" -> ParseError(<< >>, "Sitemap fetch failed", << >>)
      [] web[url].kind = "index" ->
            IF web[url].children = << >>
            THEN ParseError(<< >>, "No sitemaps found in sitemap index", << >>)
            ELSE ParseSitemapIndex(web[url].children, << >>, << >>)
      [] OTHER -> ParseUrlSet(web[url])

\* The result parseSitemapIndex builds from the URLs and the errors
\* collected over the children.
IndexResult(allUrls, errors) ==
    IF errors # << >> /\ allUrls = << >>
    THEN ParseError(<< >>, "All sub-sitemaps failed", errors)
    ELSE IF errors # << >> THEN ParseError(allUrls, "Partial success", errors)
    ELSE ParseOk(allUrls)

\* The child's URLs are appended unless its result carries an error.
AddChild(child, sub, allUrls, errors) ==
    IF IsSome(sub.error) THEN [allUrls |-> allUrls, errors |-> Append(errors, child)]
    ELSE [allUrls |-> allUrls \o sub.urls, errors |-> errors]

\* parseSitemapIndex: the loop over the <sitemap> entries.
ParseSitemapIndex(children, allUrls, errors) ==
    IF children = << >> THEN IndexResult(allUrls, errors)
    ELSE LET acc == AddChild(Head(children), ParserParseSitemap(Head(children)),
                             allUrls, errors)
         IN  ParseSitemapIndex(Tail(children), acc.allUrls, acc.errors)

\* The page URLs whose text contains 'sitemap' and ends with '.xml', and
\* the sitemap document such a URL serves.
SitemapLocs == {4}
SitemapAt(loc) == "C"

\* [...new Set(urls)]: the first occurrence of each URL, in order.
RECURSIVE Unique(_)
Unique(s) ==
    IF s = << >> THEN << >>
    ELSE LET rest == Unique(SubSeq(s, 1, Len(s) - 1))
         IN  IF s[Len(s)] \in Range(rest) THEN rest ELSE Append(rest, s[Len(s)])

RECURSIVE GetAllUrlsFromSitemaps(_, _)
RECURSIVE CollectEntries(_, _, _)

\* The loop of getAllUrlsFromSitemaps over result.urls: an entry that looks
\* like a sitemap is resolved one level deeper, and skipped if that throws.
CollectEntries(entries, urls, maxDepth) ==
    IF entries = << >> THEN urls
    ELSE IF Head(entries) \in SitemapLocs
    THEN CollectEntries(Tail(entries),
                        urls \o GetAllUrlsFromSitemaps(SitemapAt(Head(entries)),
                                                       maxDepth - 1).urls,
                        maxDepth)
    ELSE CollectEntries(Tail(entries), Append(urls, Head(entries)), maxDepth)

\* What getAllUrlsFromSitemaps makes of the result of parseSitemap: it
\* throws if the result carries an error.
AllUrlsOf(result, maxDepth) ==
    IF IsSome(result.error) THEN [thrown |-> TRUE, urls |-> << >>]
    ELSE [thrown |-> FALSE, urls |-> Unique(CollectEntries(result.urls, << >>, maxDepth))]

\* SitemapParser.getAllUrlsFromSitemaps(sitemapUrl, maxDepth).
GetAllUrlsFromSitemaps(url, maxDepth) ==
    IF maxDepth <= 0 THEN [thrown |-> FALSE, urls |-> << >>]
    ELSE AllUrlsOf(ParserParseSitemap(url), maxDepth)

\* The default of maxDepth, and the depths the model calls with.
DefaultMaxDepth == 3
MaxDepths == 0..DefaultMaxDepth

\* The sitemap trees of the model: "A" is a urlset, an index of "B" and
\* "C", or down; "B" may be an index of "C"; a urlset may be empty and may
\* list a URL that looks like a sitemap.
ParserRoots == {Index(<<"B", "C">>), Index(<<"C", "B">>), Index(<<"B">>),
                UrlSet(<<1, 2>>, 1), UrlSet(<<1, 4>>, 1), Down}
ParserMiddles == {UrlSet(<<1, 2>>, 1), UrlSet(<<2, 4>>, 1), UrlSet(<< >>, 1), Down,
                  Index(<<"C">>), Index(<<"C", "C">>)}
ParserLeaves == {UrlSet(<<3>>, 1), UrlSet(<<1, 3>>, 1), UrlSet(<<3, 4>>, 1),
                 UrlSet(<< >>, 1), Down}
ParserWebs == {Web(a, b, c) : a \in ParserRoots, b \in ParserMiddles, c \in ParserLeaves}

\* The sitemap of the site is resolved, by parseSitemap and by
\* getAllUrlsFromSitemaps.
ResolveSitemaps ==
    /\ IsSome(input)
    /\ parserCall = None
    /\ parserCall' = Some([url |-> RootSitemap,
                           maxDepth |-> Get(input).maxDepth,
                           parsed |-> ParserParseSitemap(RootSitemap),
                           all |-> GetAllUrlsFromSitemaps(RootSitemap,
                                                          Get(input).maxDepth)])
    /\ UNCHANGED <<diffCache, now, diffCall, normCall, input, fetchRun, invocations>>
    /\ UNCHANGED fetchVars

InitParser ==
    /\ InitFetcherOn(Pages)
    /\ config = SitemapSite /\ server = "none"
    /\ web \in ParserWebs
    /\ InitDiffCache
    /\ \E maxDepth \in MaxDepths : input = Some([maxDepth |-> maxDepth])

NextParser == ResolveSitemaps

SpecParser == InitParser /\ [][NextParser]_vars

\* The children of the root index whose own resolution carries no error,
\* those whose resolution carries one, and the URLs of the former.
ChildSucceeds(child) == ~IsSome(ParserParseSitemap(child).error)
ChildFails(child) == IsSome(ParserParseSitemap(child).error)
RECURSIVE UrlsOfChildren(_)
UrlsOfChildren(children) ==
    IF children = << >> THEN << >>
    ELSE ParserParseSitemap(Head(children)).urls \o UrlsOfChildren(Tail(children))

\* C27: when some children of the root sitemap index fail and others
\* succeed, parseSitemap returns the URLs of the succeeding children and
\* names the failed children in its warning, and getAllUrlsFromSitemaps
\* returns those URLs instead of failing; failure is reported only when no
\* URL was obtained.
C27_PartialSuccessReturnsUrls ==
    IsSome(parserCall) =>
        LET c == Get(parserCall)
            children == web[c.url].children
            succeeded == SelectSeq(children, ChildSucceeds)
            failed == SelectSeq(children, ChildFails)
            NoSitemap(loc) == loc \notin SitemapLocs
        IN  (c.maxDepth > 0 /\ web[c.url].kind = "index"
                /\ succeeded # << >> /\ failed # << >>) =>
                /\ c.parsed.urls = UrlsOfChildren(succeeded)
                /\ IsSome(c.parsed.error)
                /\ Get(c.parsed.error).failed = failed
                /\ ~c.all.thrown
                /\ Range(SelectSeq(c.parsed.urls, NoSitemap)) \subseteq Range(c.all.urls)

\* ------------------------------------------------------------------------
\* fetchUrlsWithConcurrency, step by step
\* ------------------------------------------------------------------------

\* The hard limit of parallel fetches.
ConcurrencyCap == 5

\* A chunk size that takes the configured concurrency as it is.
ConcurrencyUncapped(options) == options.concurrency

\* const concurrency = Math.min(options.concurrency, 5)
Concurrency(options) == Min(options.concurrency, ConcurrencyCap)

\* The fetch options and the batches of the model: a concurrency below,
\* and one above the limit; a batch longer than one chunk.
FetchOptions == {[concurrency |-> c, retries |-> r] : c \in {1, 2, 6}, r \in {0, 1}}

\* The errors performFetch throws: a non-2xx status, an aborted request.
FetchErrors == {"HTTP 500: Internal Server Error", "The operation was aborted"}

\* A backoff that waits one second whatever the attempt.
BackoffFixed(attempt) == 1

\* const delay = Math.pow(2, attempt) * 1000, in seconds
BackoffDelay(attempt) == 2 ^ attempt

\* What fetchUrlWithRetries does for one URL, in order: an attempt (a call
\* of performFetch) with its outcome, a backoff delay.
Attempt(n, error) == [kind |-> "attempt", attempt |-> n, error |-> error, seconds |-> 0]
Delay(seconds) == [kind |-> "delay", attempt |-> 0, error |-> None, seconds |-> seconds]
FetchBatches == {[i \in 1..n |-> i] : n \in {0, 3, 7}}
Positions == UNION {DOMAIN urls : urls \in FetchBatches}

\* The positions of the chunk urls.slice(i, i + concurrency).
ChunkAt(run) ==
    {j \in 1..Len(run.urls) : run.i < j /\ j <= run.i + Concurrency(run.options)}

Settled == {"ok", "failed"}

\* fetchUrlsWithConcurrency is called: no fetch has started, i = 0.
CallFetchUrls ==
    /\ IsSome(input)
    /\ fetchRun = None
    /\ fetchRun' = Some([urls |-> Get(input).urls, options |-> Get(input).options,
                         i |-> 0, awaiting |-> FALSE, done |-> FALSE,
                         fetch |-> [j \in 1..Len(Get(input).urls) |-> "idle"],
                         attempt |-> [j \in 1..Len(Get(input).urls) |-> 0],
                         lastError |-> [j \in 1..Len(Get(input).urls) |-> None],
                         log |-> [j \in 1..Len(Get(input).urls) |-> << >>],
                         errors |-> Get(input).errors,
                         results |-> << >>])
    /\ UNCHANGED <<diffCache, now, diffCall, normCall, input, parserCall, invocations>>
    /\ UNCHANGED fetchVars

\* The run moves on to the state next.
FetchStep(next) ==
    /\ fetchRun' = Some(next)
    /\ UNCHANGED <<diffCache, now, diffCall, normCall, input, parserCall, invocations>>
    /\ UNCHANGED fetchVars

\* One iteration of the loop begins: batch.map starts fetchUrlWithRetries
\* for every URL of the chunk, each running up to its first fetch.
StartChunk ==
    /\ IsSome(fetchRun)
    /\ LET run == Get(fetchRun)
       IN  /\ ~run.done /\ ~run.awaiting
           /\ run.i < Len(run.urls)
           /\ FetchStep([run EXCEPT !.awaiting = TRUE,
                                    !.fetch = [j \in DOMAIN run.fetch |->
                                                IF j \in ChunkAt(run) THEN "inFlight"
                                                ELSE run.fetch[j]]])

\* performFetch of one URL returns: fetchUrlWithRetries resolves with a success.
FetchResponds(j) ==
    /\ IsSome(fetchRun)
    /\ LET run == Get(fetchRun)
       IN  /\ j \in DOMAIN run.fetch
           /\ run.fetch[j] = "inFlight"
           /\ FetchStep([run EXCEPT !.fetch[j] = "ok",
                                    !.log[j] = Append(run.log[j],
                                                      Attempt(run.attempt[j], None))])

\* The steps of the catch block after the failed attempt: a delay if an
\* attempt is left.
AfterFailure(attempt, error, retries) ==
    IF attempt < retries
    THEN <<Attempt(attempt, Some(error)), Delay(BackoffDelay(attempt))>>
    ELSE <<Attempt(attempt, Some(error))>>

\* performFetch of one URL throws (error status, timeout): the backoff delay
\* begins if an attempt is left, else fetchUrlWithRetries resolves with a failure.
FetchThrows(j) ==
    /\ IsSome(fetchRun)
    /\ LET run == Get(fetchRun)
       IN  /\ j \in DOMAIN run.fetch
           /\ run.fetch[j] = "inFlight"
           /\ \E error \in run.errors :
                 FetchStep([run EXCEPT !.fetch[j] =
                                         IF run.attempt[j] < run.options.retries
                                         THEN "backoff" ELSE "failed",
                                      !.lastError[j] = Some(error),
                                      !.log[j] = run.log[j] \o
                                          AfterFailure(run.attempt[j], error,
                                                       run.options.retries)])

\* The backoff delay ends: the next attempt fetches.
RetryFetch(j) ==
    /\ IsSome(fetchRun)
    /\ LET run == Get(fetchRun)
       IN  /\ j \in DOMAIN run.fetch
           /\ run.fetch[j] = "backoff"
           /\ FetchStep([run EXCEPT !.fetch[j] = "inFlight",
                                    !.attempt[j] = run.attempt[j] + 1])

\* The results of the chunk, in the order of its URLs.
RECURSIVE ChunkResults(_, _, _)
ChunkResults(run, from, to) ==
    IF from > to THEN << >>
    ELSE <<[url |-> run.urls[from], success |-> run.fetch[from] = "ok",
            error |-> IF run.fetch[from] = "ok" THEN None ELSE run.lastError[from]]>>
             \o ChunkResults(run, from + 1, to)

\* await Promise.allSettled(batchPromises) returns: every promise of the
\* chunk is settled; the results are pushed and i advances.
ChunkSettled ==
    /\ IsSome(fetchRun)
    /\ LET run == Get(fetchRun)
       IN  /\ run.awaiting
           /\ \A j \in ChunkAt(run) : run.fetch[j] \in Settled
           /\ FetchStep([run EXCEPT !.awaiting = FALSE,
                                    !.i = run.i + Concurrency(run.options),
                                    !.results = run.results \o
                                        ChunkResults(run, run.i + 1,
                                                     Min(run.i + Concurrency(run.options),
                                                         Len(run.urls)))])

\* The loop ends: return results.
ReturnResults ==
    /\ IsSome(fetchRun)
    /\ LET run == Get(fetchRun)
       IN  /\ ~run.done /\ ~run.awaiting
           /\ run.i >= Len(run.urls)
           /\ FetchStep([run EXCEPT !.done = TRUE])

InitFetch ==
    /\ InitFetcherOn(Pages)
    /\ config = UrlListSite /\ server = "none" /\ web = WebDown
    /\ InitDiffCache
    /\ \E urls \in FetchBatches : \E options \in FetchOptions :
          input = Some([urls |-> urls, options |-> options,
                        errors |-> {"HTTP 500: Internal Server Error"}])

NextFetch ==
    \/ CallFetchUrls
    \/ StartChunk
    \/ \E j \in Positions : FetchResponds(j) \/ FetchThrows(j) \/ RetryFetch(j)
    \/ ChunkSettled
    \/ ReturnResults

SpecFetch == InitFetch /\ [][NextFetch]_vars

\* The fetches in flight, and the number of the chunk a position belongs to
\* when chunks hold limit URLs.
InFlight(run) == {j \in DOMAIN run.fetch : run.fetch[j] = "inFlight"}
ChunkOf(j, limit) == (j - 1) \div limit

\* C30: during the fetch step at most min(configured concurrency, 5) page
\* fetches are in flight, and no fetch of a later chunk has started unless
\* every fetch of the chunks before it has settled.
C30_BoundedSequentialChunks ==
    IsSome(fetchRun) =>
        LET run == Get(fetchRun)
            limit == Min(run.options.concurrency, ConcurrencyCap)
        IN  /\ Cardinality(InFlight(run)) <= limit
            /\ \A j, k \in DOMAIN run.fetch :
                   (ChunkOf(j, limit) < ChunkOf(k, limit) /\ run.fetch[k] # "idle")
                       => run.fetch[j] \in Settled

\* C30 witness: the configured concurrency exceeds the limit, a fetch of
\* the second chunk is in flight after a retry, and a fetch of the first
\* chunk had failed.
C30_Witness ==
    /\ IsSome(fetchRun)
    /\ Get(fetchRun).options.concurrency > ConcurrencyCap
    /\ Get(fetchRun).i = ConcurrencyCap
    /\ \E k \in InFlight(Get(fetchRun)) : Get(fetchRun).attempt[k] > 0
    /\ \E j \in DOMAIN Get(fetchRun).fetch : Get(fetchRun).fetch[j] = "failed"

\* Retries: one or two URLs in one chunk, up to two retries, two kinds of
\* error.
RetryOptions == {[concurrency |-> 2, retries |-> r] : r \in {0, 1, 2}}
RetryBatches == {<<1>>, <<1, 2>>}

InitRetry ==
    /\ InitFetcherOn(Pages)
    /\ config = UrlListSite /\ server = "none" /\ web = WebDown
    /\ InitDiffCache
    /\ \E urls \in RetryBatches : \E options \in RetryOptions :
          input = Some([urls |-> urls, options |-> options, errors |-> FetchErrors])

SpecRetry == InitRetry /\ [][NextFetch]_vars

\* The attempts in a log, and whether a step is a failed attempt.
IsAttempt(step) == step.kind = "attempt"
Failed(step) == step.kind = "attempt" /\ IsSome(step.error)

GenerateDiff(site, date, url, cmp, options) ==
    \E out \in {GenerateDiffOutcome(site, date, url, cmp, options)} :
        /\ diffCall' = Some([site |-> site, date |-> date, url |-> url, cmp |-> cmp,
                             options |-> options, at |-> now,
                             diff |-> out.diff, fromCache |-> out.fromCache,
                             entry |-> out.entry, compared |-> out.compared,
                             limited |-> out.limited, before |-> out.before])
        /\ diffCache' = out.cache
        /\ UNCHANGED <<now, normCall, input, parserCall, fetchRun, invocations>>
        /\ UNCHANGED fetchVars

\* Time passes.
Tick ==
    /\ now < MaxClock
    /\ now' = now + 1
    /\ UNCHANGED <<diffCache, diffCall, normCall, input, parserCall, fetchRun, invocations>>
    /\ UNCHANGED fetchVars

\* The call of generateDiff whose arguments were drawn.
GenerateDiffOnce ==
    /\ IsSome(input)
    /\ diffCall = None
    /\ GenerateDiff(Get(input).site, Get(input).date, Get(input).url,
                    Get(input).cmp, Get(input).options)

\* The options of the calls without a cache: no limit, the limit 0, limits
\* below the number of changes; with and without progressive loading.
LimitOptions ==
    {DiffOptions(max, progressive, FALSE) :
        max \in {None, Some(0), Some(2), Some(5)}, progressive \in BOOLEAN}

InitLimit ==
    /\ InitFetcherOn(Pages)
    /\ config = SitemapSite /\ server = "none" /\ web = WebFlat(1)
    /\ InitDiffCache
    /\ \E cmp \in Comparisons, options \in LimitOptions :
          input = Some([site |-> "s1", date |-> 1, url |-> "u1",
                        cmp |-> cmp, options |-> options])

NextLimit == GenerateDiffOnce

SpecLimit == InitLimit /\ [][NextLimit]_vars

DiffCalled == IsSome(diffCall)
DiffCall == Get(diffCall)

\* Every retained change has at least the priority of every dropped change:
\* kept is what remains of the list all.
CountOf(list, x) == Cardinality({i \in 1..Len(list) : list[i] = x})
KeptHighest(all, kept) ==
    /\ \A x \in Range(all) \cup Range(kept) : CountOf(kept, x) <= CountOf(all, x)
    /\ \A x \in Range(kept), y \in Range(all) :
          CountOf(kept, y) < CountOf(all, y) => x >= y

\* C17: when limitChanges truncated the diff, in each category the retained
\* changes are changes of the diff, and no retained change has a lower
\* priority than a dropped change of the category.
C17_KeepsHighestPriorities ==
    (DiffCalled /\ DiffCall.limited) =>
        /\ KeptHighest(DiffCall.before.content, DiffCall.diff.classification.content)
        /\ KeptHighest(DiffCall.before.style, DiffCall.diff.classification.style)
        /\ KeptHighest(DiffCall.before.structure, DiffCall.diff.classification.structure)

\* C17 witness: of the content changes 3, 5 in this order the 5 was kept and
\* the 3 dropped.
C17_Witness ==
    /\ DiffCalled /\ DiffCall.limited
    /\ DiffCall.before.content = <<3, 5>>
    /\ DiffCall.diff.classification.content = <<5>>

\* C18: a call of generateDiff on a document above the size threshold
\* compared only the prefixes and returned a diff with isPartial = true.
C18_LargeIsPartial ==
    (DiffCalled /\ DiffCall.cmp.large) =>
        /\ DiffCall.compared = "prefix"
        /\ DiffCall.diff.isPartial

\* The calls with a cache: diffs of two sites and two URLs, requested with
\* and without the cache while time passes.
CacheComparisons ==
    { [large |-> FALSE, full |-> [content |-> <<5>>, style |-> << >>, structure |-> << >>]],
      [large |-> FALSE, full |-> [content |-> << >>, style |-> <<1>>, structure |-> << >>]] }

CacheOptions == {DiffOptions(None, FALSE, TRUE), DiffOptions(None, FALSE, FALSE)}

InitCache ==
    /\ InitFetcherOn(Pages)
    /\ config = SitemapSite /\ server = "none" /\ web = WebFlat(1)
    /\ InitDiffCache
    /\ input = None

NextCache ==
    \/ \E site \in Sites, date \in DiffDates, url \in DiffUrls,
          cmp \in CacheComparisons, options \in CacheOptions :
            GenerateDiff(site, date, url, cmp, options)
    \/ Tick

SpecCache == InitCache /\ [][NextCache]_vars

\* C19: a diff returned from the cache comes from an entry computed for the
\* same site, date and url that has not expired; and no cache entry lies
\* under a key that is also the key of another URL of its site and date.
C19_CacheHitIsOwnEntry ==
    /\ (DiffCalled /\ DiffCall.fromCache) =>
          /\ Get(DiffCall.entry).key[1] = DiffCall.site
          /\ Get(DiffCall.entry).diff.date = DiffCall.date
          /\ Get(DiffCall.entry).diff.url = DiffCall.url
          /\ DiffCall.at <= Get(DiffCall.entry).expiresAt
    /\ \A k \in CacheKeys :
          IsSome(diffCache[k]) =>
              \A u \in DiffUrls \ {Get(diffCache[k]).diff.url} :
                  GetCacheKey(k[1], k[2], u) # k

\* Diffs around the size cap: one of five changes, above the cap, and one of
\* a single change; requested with the cache, without a limit and with a
\* limit that brings the large diff below the cap.
SizedComparisons ==
    { [large |-> FALSE, full |-> [content |-> <<5, 3>>, style |-> <<1, 2>>,
                                  structure |-> <<2>>]],
      [large |-> FALSE, full |-> [content |-> <<5>>, style |-> << >>, structure |-> << >>]] }
SizedOptions == {DiffOptions(None, FALSE, TRUE), DiffOptions(Some(2), FALSE, TRUE)}

NextSized ==
    \/ \E url \in DiffUrls, cmp \in SizedComparisons, options \in SizedOptions :
            GenerateDiff("s1", 1, url, cmp, options)
    \/ Tick

SpecSized == InitCache /\ [][NextSized]_vars

\* The call just made computed a diff above the size cap, with the cache on.
Oversize ==
    /\ DiffCalled /\ ~DiffCall.fromCache /\ DiffCall.options.cacheEnabled
    /\ SerializedSize(DiffCall.diff) > DiffSizeCap

\* The next call has the arguments of the call just made.
SameCallAgain ==
    /\ diffCall' # diffCall
    /\ Get(diffCall').site = DiffCall.site /\ Get(diffCall').date = DiffCall.date
    /\ Get(diffCall').url = DiffCall.url /\ Get(diffCall').cmp = DiffCall.cmp
    /\ Get(diffCall').options = DiffCall.options

IncludeOptions ==
    {[includeContent |-> content, includeStyle |-> style, includeStructure |-> TRUE,
      maxChanges |-> max, progressiveLoad |-> FALSE, cacheEnabled |-> cache] :
        content \in BOOLEAN, style \in BOOLEAN, max \in {None, Some(2)},
        cache \in BOOLEAN}
IncludeComparisons ==
    { [large |-> FALSE, full |-> [content |-> <<5, 3>>, style |-> <<1>>,
                                  structure |-> <<2>>]],
      [large |-> FALSE, full |-> [content |-> << >>, style |-> <<2>>, structure |-> << >>]] }

NextInclude ==
    \/ \E cmp \in IncludeComparisons, options \in IncludeOptions :
            GenerateDiff("s1", 1, "u1", cmp, options)
    \/ Tick

SpecInclude == InitCache /\ [][NextInclude]_vars

\* The number of changes a diff lists.
ListedChanges(diff) ==
    Len(diff.classification.content) + Len(diff.classification.style)
        + Len(diff.classification.structure)

\* C39: in every diff generateDiff returns, summary.totalChanges is the
\* number of changes in its three lists, also when a category is excluded.
C39_TotalIsSumOfLists ==
    DiffCalled => DiffCall.diff.summary.totalChanges = ListedChanges(DiffCall.diff)

\* C40: the diff a call returns honours the options of that call, also when
\* it comes from the cache: no style changes with includeStyle = false, at
\* most m changes with maxChanges = m.
C40_CacheHitHonoursOptions ==
    DiffCalled =>
        /\ ~DiffCall.options.includeStyle => DiffCall.diff.classification.style = << >>
        /\ IsSome(DiffCall.options.maxChanges) =>
               ListedChanges(DiffCall.diff) <= Get(DiffCall.options.maxChanges)

\* ------------------------------------------------------------------------
\* Normalization of a document (ContentComparer.normalizeContent)
\* ------------------------------------------------------------------------

\* A document is a sequence of tokens: a word, the name of a weekday, a
\* numeric date (2026-02-22), a number of 10 to 13 digits, white space, and
\* the text [REDACTED].
Redacted == "[REDACTED]"
Tokens == {"word", "weekday", "date", "epoch", "space", Redacted}
Documents == SeqsUpTo(Tokens, MaxTokens)

\* replace(/\s+/g, ' '): a run of white space becomes one space.
RECURSIVE CollapseSpaces(_)
CollapseSpaces(doc) ==
    IF Len(doc) < 2 THEN doc
    ELSE IF doc[1] = "space" /\ doc[2] = "space" THEN CollapseSpaces(Tail(doc))
    ELSE <<doc[1]>> \o CollapseSpaces(Tail(doc))

\* trim()
RECURSIVE TrimStart(_)
TrimStart(doc) ==
    IF doc # << >> /\ Head(doc) = "space" THEN TrimStart(Tail(doc)) ELSE doc

RECURSIVE TrimEnd(_)
TrimEnd(doc) ==
    IF doc # << >> /\ doc[Len(doc)] = "space"
    THEN TrimEnd(SubSeq(doc, 1, Len(doc) - 1)) ELSE doc

Trim(doc) == TrimEnd(TrimStart(doc))

\* minify with collapseWhitespace, on a document without markup.
Minify(doc) == CollapseSpaces(doc)

\* The texts the date and time patterns match (two different dates), and
\* the texts the pattern for numbers of 10 to 13 digits matches.
DateTokens == {"date", "date2"}
EpochTokens == {"epoch"}

\* replace(pattern, '[REDACTED]') for a pattern that matches these tokens.
Redact(doc, tokens) ==
    [i \in 1..Len(doc) |-> IF doc[i] \in tokens THEN Redacted ELSE doc[i]]

\* replace(/\b(?:monday|..|sunday)\b\s*(?=\[REDACTED\])/gi, '[REDACTED]'):
\* a weekday and the white space after it, when [REDACTED] follows.
RECURSIVE RedactWeekdays(_)
RedactWeekdays(doc) ==
    IF doc = << >> THEN << >>
    ELSE LET rest == TrimStart(Tail(doc))
         IN  IF Head(doc) = "weekday" /\ rest # << >> /\ Head(rest) = Redacted
             THEN <<Redacted>> \o RedactWeekdays(rest)
             ELSE <<Head(doc)>> \o RedactWeekdays(Tail(doc))

\* The loop over IGNORE_PATTERNS, after minify: the built-in patterns in
\* their order (dates, a weekday before [REDACTED], .., long numbers).
BuiltInPatterns(doc) ==
    Redact(RedactWeekdays(Redact(Minify(doc), DateTokens)), EpochTokens)

\* A custom ignore pattern: whether new RegExp accepts it, and the tokens
\* it matches.
CustomIgnore == "[CUSTOM_IGNORE]"
ValidPattern(tokens) == [valid |-> TRUE, tokens |-> tokens]
BrokenPattern == [valid |-> FALSE, tokens |-> {}]

\* An invalid pattern whose error leaves normalizeContent.
InvalidPatternThrows(acc) == [acc EXCEPT !.thrown = TRUE]

\* new RegExp throws and the catch block logs the pattern: the content is
\* as it was.
InvalidPattern(acc) == acc

\* One iteration of the loop over ignorePatterns.
ApplyPattern(acc, pattern) ==
    IF acc.thrown THEN acc
    ELSE IF ~pattern.valid THEN InvalidPattern(acc)
    ELSE [acc EXCEPT !.content =
             [i \in 1..Len(acc.content) |->
                 IF acc.content[i] \in pattern.tokens THEN CustomIgnore
                 ELSE acc.content[i]]]

\* The loop over ignorePatterns, in order.
RECURSIVE ApplyCustom(_, _)
ApplyCustom(acc, patterns) ==
    IF patterns = << >> THEN acc
    ELSE ApplyCustom(ApplyPattern(acc, Head(patterns)), Tail(patterns))

\* The end of normalizeContent: white space collapsed, trimmed.
Finish(acc) == [acc EXCEPT !.content = Trim(CollapseSpaces(acc.content))]

\* normalizeContent(content, ignorePatterns); thrown: an error left it.
NormalizeContentWith(doc, ignorePatterns) ==
    Finish(ApplyCustom([content |-> BuiltInPatterns(doc), thrown |-> FALSE],
                       ignorePatterns))

\* normalizeContent without custom patterns.
NormalizeContent(doc) == NormalizeContentWith(doc, << >>).content

\* The document is normalized, and the result normalized again.
Normalize ==
    /\ IsSome(input)
    /\ normCall = None
    /\ normCall' = Some([content |-> Get(input).content,
                         once |-> NormalizeContent(Get(input).content),
                         twice |-> NormalizeContent(NormalizeContent(Get(input).content))])
    /\ UNCHANGED <<diffCache, now, diffCall, input, parserCall, fetchRun, invocations>>
    /\ UNCHANGED fetchVars

InitNormalize ==
    /\ InitFetcherOn(Pages)
    /\ config = SitemapSite /\ server = "none" /\ web = WebFlat(1)
    /\ InitDiffCache
    /\ \E doc \in Documents : input = Some([content |-> doc])

NextNormalize == Normalize

SpecNormalize == InitNormalize /\ [][NextNormalize]_vars

\* C20: normalizing normalized content changes nothing:
\* normalizeContent(normalizeContent(x)) = normalizeContent(x).
C20_NormalizeIdempotent ==
    IsSome(normCall) => Get(normCall).twice = Get(normCall).once

\* Documents with noise: words, white space, and two different values each
\* of a date, a session token and a UUID. No built-in pattern matches a
\* session token or a UUID.
NoisyTokens == {"word", "space", "date", "date2", "session", "session2", "uuid", "uuid2"}
NoisyDocuments == SeqsUpTo(NoisyTokens, MaxTokens)

\* The other value of a piece of noise; a token that is no noise is itself.
Twin(token) ==
    CASE token = "date" -> "date2"
      [] token = "date2" -> "date"
      [] token = "session" -> "session2"
      [] token = "session2" -> "session"
      [] token = "uuid" -> "uuid2"
      [] token = "uuid2" -> "uuid"
      [] OTHER -> token

\* The document with the noise at the places in flipped replaced by other
\* values: it differs from doc only in noise.
OtherNoise(doc, flipped) ==
    [i \in 1..Len(doc) |-> IF i \in flipped THEN Twin(doc[i]) ELSE doc[i]]

\* Two documents are normalized.
NormalizeBoth ==
    /\ IsSome(input)
    /\ normCall = None
    /\ normCall' = Some([content |-> Get(input).content,
                         other |-> Get(input).other,
                         once |-> NormalizeContent(Get(input).content),
                         onceOther |-> NormalizeContent(Get(input).other)])
    /\ UNCHANGED <<diffCache, now, diffCall, input, parserCall, fetchRun, invocations>>
    /\ UNCHANGED fetchVars

InitNoise ==
    /\ InitFetcherOn(Pages)
    /\ config = SitemapSite /\ server = "none" /\ web = WebFlat(1)
    /\ InitDiffCache
    /\ \E doc \in NoisyDocuments : \E flipped \in SUBSET (1..Len(doc)) :
          input = Some([content |-> doc, other |-> OtherNoise(doc, flipped)])

NextNoise == NormalizeBoth

SpecNoise == InitNoise /\ [][NextNoise]_vars

\* C21: two documents that differ only in noise (dates, session tokens,
\* UUIDs) have the same normalized content, hence the same normalized hash.
C21_NoiseNormalizesAway ==
    IsSome(normCall) => Get(normCall).once = Get(normCall).onceOther

\* Custom patterns: documents of words, dates, session tokens and white
\* space; up to two patterns, valid ones for words and for session tokens
\* and an invalid one.
CustomTokens == {"word", "date", "session", "space"}
CustomDocuments == SeqsUpTo(CustomTokens, MaxTokens)
CustomPatterns == {ValidPattern({"word"}), ValidPattern({"session", "session2"}),
                   BrokenPattern}
MaxPatterns == 2

\* A document is normalized with custom ignore patterns.
NormalizeCustom ==
    /\ IsSome(input)
    /\ normCall = None
    /\ normCall' = Some([content |-> Get(input).content,
                         ignorePatterns |-> Get(input).ignorePatterns,
                         out |-> NormalizeContentWith(Get(input).content,
                                                      Get(input).ignorePatterns)])
    /\ UNCHANGED <<diffCache, now, diffCall, input, parserCall, fetchRun, invocations>>
    /\ UNCHANGED fetchVars

InitCustom ==
    /\ InitFetcherOn(Pages)
    /\ config = SitemapSite /\ server = "none" /\ web = WebFlat(1)
    /\ InitDiffCache
    /\ \E doc \in CustomDocuments : \E patterns \in SeqsUpTo(CustomPatterns, MaxPatterns) :
          input = Some([content |-> doc, ignorePatterns |-> patterns])

NextCustom == NormalizeCustom

SpecCustom == InitCustom /\ [][NextCustom]_vars

\* C33: normalization with an invalid custom pattern raises nothing, and
\* its result contains no text a valid custom pattern matches and no text a
\* built-in pattern matches.
C33_InvalidPatternSkipped ==
    IsSome(normCall) =>
        LET call == Get(normCall)
        IN  /\ ~call.out.thrown
            /\ \A i \in DOMAIN call.out.content :
                   /\ call.out.content[i] \notin DateTokens \cup EpochTokens
                   /\ \A k \in DOMAIN call.ignorePatterns :
                          call.ignorePatterns[k].valid =>
                              call.out.content[i] \notin call.ignorePatterns[k].tokens

\* C33 witness: an invalid pattern comes before a valid one, and the
\* document has a date and a text the valid pattern matches.
C33_Witness ==
    /\ IsSome(normCall)
    /\ Len(Get(normCall).ignorePatterns) = 2
    /\ ~Get(normCall).ignorePatterns[1].valid
    /\ Get(normCall).ignorePatterns[2].valid
    /\ \E i \in DOMAIN Get(normCall).content :
          Get(normCall).content[i] \in Get(normCall).ignorePatterns[2].tokens
    /\ \E i \in DOMAIN Get(normCall).content : Get(normCall).content[i] = "date"
    /\ CustomIgnore \in Range(Get(normCall).out.content)
    /\ Redacted \in Range(Get(normCall).out.content)

====
